---- MODULE Spec2Model ----
(***************************************************************************)
(* State-machine model of the resilience utilities of the metadata        *)
(* extraction dashboard:                                                   *)
(*   modules/retry.py                 CircuitBreaker, RetryManager         *)
(*   modules/batch_processing.py      BatchProcessor                       *)
(*   modules/background_processing.py BackgroundJobManager                 *)
(*   modules/cache.py                 PersistentCache, cache_api_call      *)
(*   modules/api_client.py            BoxAPIClient.call_api                *)
(*   modules/integration.py           OptimizedIntegration                 *)
(*   modules/direct_metadata_application_enhanced_fixed.py                 *)
(*                                    fix_metadata_format,                 *)
(*                                    flatten_metadata_for_template        *)
(* Each utility has its own specifications over its own variables:         *)
(* SpecRetry and SpecBreaker, SpecBatch, SpecJobs and SpecJobsFair,        *)
(* SpecCache, SpecCacheFiles and SpecCachedRead, SpecIntegration,          *)
(* SpecMetadata.                                                           *)
(***************************************************************************)
EXTENDS Integers, Sequences, FiniteSets, TLC

(***************************************************************************)
(* Bounds of the model.                                                    *)
(***************************************************************************)
\* largest wall-clock value (time.time()) the model reaches
MaxTime == 3
\* failure_threshold is drawn from 1..MaxThreshold
MaxThreshold == 2
\* max_retries is drawn from 0..MaxRetries
MaxRetries == 1
\* half_open_max_calls is drawn from 1..MaxHalfOpen
MaxHalfOpen == 1
\* number of RetryManager.execute calls started in one behaviour
MaxCalls == 2

\* process_batch is called with 0..MaxItems items
MaxItems == 3
\* batch_size is drawn from 1..MaxBatchSize
MaxBatchSize == 2
\* max_workers is drawn from 1..MaxWorkers
MaxWorkers == 2

\* number of jobs enqueued in one behaviour
MaxJobs == 1
\* job_ttl of the BackgroundJobManager, in clock ticks
JobTtl == 1
\* number of jobs enqueued in one behaviour of the fair specification
MaxQueued == 3

\* min_workers and max_workers of the AdaptiveBatchProcessor are drawn from
\* 1..MaxAdaptWorkers
MaxAdaptWorkers == 2
\* adaptation_interval is 1 or MaxInterval
MaxInterval == 2

\* the clock runs from 0 to MaxLruTime while the memory tier is under
\* pressure
MaxLruTime == 1

\* the wrapped functions of the calls that begin at HealTime or later succeed
HealTime == 2

\* max_memory_items is drawn from 1..MaxMemoryItems
MaxMemoryItems == 2

\* the max_retries argument of call_api is drawn from 0..MaxApiRetries
MaxApiRetries == 1

\* the threads that call RetryManager.execute concurrently
Callers == {"t1", "t2"}

Min(a, b) == IF a < b THEN a ELSE b
Max(a, b) == IF a > b THEN a ELSE b

VARIABLES
    now,        \* time.time()
    \* ---- retry.py ----
    cfg,        \* constructor arguments of the breaker and the retry manager
    cb,         \* the CircuitBreaker's fields
    rm,         \* the RetryManager's statistics
    call,       \* per calling thread: the RetryManager.execute call in progress
    callsLeft,  \* execute calls that may still be started
    streak,     \* history: consecutive failures recorded in the closed state
    \* ---- batch_processing.py ----
    bat,          \* arguments of the process_batch call
    behav,        \* what process_func does on each item
    bpc,          \* position of the thread that runs process_batch
    offset,       \* loop variable i of process_batch: start of the chunk
    fut,          \* state of each item's future in the executor
    pendingF,     \* as_completed: futures not yet handed out
    yieldq,       \* as_completed: finished futures about to be handed out
    waiterList,   \* as_completed: waiter.finished_futures
    chunkResults, \* results of _process_batch_concurrent
    results,      \* results of process_batch
    metrics,      \* BatchProcessor.metrics
    adaptive,     \* the AdaptiveBatchProcessor's arguments and fields
    \* ---- background_processing.py ----
    jobs,       \* BackgroundJobManager.jobs: job id -> Job
    nextId,     \* number of jobs enqueued so far (ids are 1, 2, ...)
    worker,     \* per worker thread: position and the job it processes
    running,    \* BackgroundJobManager.running
    lastCall,   \* the API call made by the last step and its return value
    \* ---- cache.py ----
    ccfg,         \* constructor arguments of the PersistentCache
    memory_cache, \* PersistentCache.memory_cache
    access_times, \* PersistentCache.access_times
    files,        \* the cache directory: key -> content of <key>.json
    reader,       \* per reading thread: the get() call in progress, with
                  \* the time it began, and the value the last one returned
    lastSet,      \* history: per key, the last set() call: its value, its
                  \* time, and whether no get() of the key was in progress
    \* ---- api_client.py, integration.py, metadata application ----
    http,       \* per calling thread: the BoxAPIClient.call_api in progress
    wrapper,    \* the call of a cache_api_call wrapper in progress
    md          \* the metadata map handed through the format fixers

retryVars == <<cfg, cb, rm, call, callsLeft, streak>>
batchVars == <<bat, behav, bpc, offset, fut, pendingF, yieldq, waiterList,
               chunkResults, results, metrics, adaptive>>
jobVars == <<jobs, nextId, worker, running, lastCall>>
cacheVars == <<ccfg, memory_cache, access_times, files, reader, lastSet>>
integrationVars == <<http, wrapper, md>>

\* A specification of one utility leaves the variables of the others at
\* these values.
RetryOff ==
    /\ cfg = <<>> /\ cb = <<>> /\ rm = <<>> /\ call = <<>>
    /\ callsLeft = 0 /\ streak = 0
BatchOff ==
    /\ bat = <<>> /\ behav = <<>> /\ bpc = "off" /\ offset = 0 /\ fut = <<>>
    /\ pendingF = {} /\ yieldq = <<>> /\ waiterList = <<>>
    /\ chunkResults = <<>> /\ results = <<>> /\ metrics = <<>>
    /\ adaptive = <<>>
JobsOff ==
    /\ jobs = <<>> /\ nextId = 0 /\ worker = <<>> /\ running = FALSE
    /\ lastCall = <<>>
CacheOff ==
    /\ ccfg = <<>> /\ memory_cache = <<>> /\ access_times = <<>>
    /\ files = <<>> /\ reader = <<>> /\ lastSet = <<>>
IntegrationOff ==
    /\ http = <<>> /\ wrapper = <<>> /\ md = <<>>

(***************************************************************************)
(* retry.py: CircuitBreaker                                                *)
(***************************************************************************)
CLOSED == "closed"
OPEN == "open"
HALF_OPEN == "half_open"

\* CircuitBreaker.__init__
CircuitBreakerInit ==
    [state |-> CLOSED, failure_count |-> 0, success_count |-> 0,
     last_failure_time |-> 0, half_open_calls |-> 0,
     total_calls |-> 0, successful_calls |-> 0, failed_calls |-> 0,
     rejected_calls |-> 0]

\* execute, lines 88-94: an open breaker whose recovery timeout has elapsed
\* becomes half-open before the call is looked at
RecoveryElapsed(b, t) == t - b.last_failure_time > cfg.recovery_timeout

AfterRecoveryCheck(b, t) ==
    IF b.state = OPEN /\ RecoveryElapsed(b, t)
    THEN [b EXCEPT !.state = HALF_OPEN, !.half_open_calls = 0]
    ELSE b

\* a half-open breaker that lets one call too many through
RejectsLate(b, t) ==
    \/ b.state = OPEN /\ ~RecoveryElapsed(b, t)
    \/ AfterRecoveryCheck(b, t).state = HALF_OPEN
         /\ AfterRecoveryCheck(b, t).half_open_calls > cfg.half_open_max_calls

\* execute, lines 88-108: is the call rejected with CircuitBreakerError?
Rejects(b, t) ==
    \/ b.state = OPEN /\ ~RecoveryElapsed(b, t)
    \/ AfterRecoveryCheck(b, t).state = HALF_OPEN
         /\ AfterRecoveryCheck(b, t).half_open_calls >= cfg.half_open_max_calls

\* execute, lines 85-112: the admission block, run under the breaker's lock
Admission(b, t) ==
    LET b1 == [AfterRecoveryCheck(b, t) EXCEPT !.total_calls = @ + 1] IN
    IF Rejects(b, t)
    THEN [b1 EXCEPT !.rejected_calls = @ + 1]
    ELSE IF b1.state = HALF_OPEN
         THEN [b1 EXCEPT !.half_open_calls = @ + 1]
         ELSE b1

\* a half-open breaker that asks for one success more than it admits calls
RecordSuccessLate(b) ==
    LET b1 == [b EXCEPT !.successful_calls = @ + 1] IN
    IF b1.state = HALF_OPEN
    THEN LET b2 == [b1 EXCEPT !.success_count = @ + 1] IN
         IF b2.success_count > cfg.half_open_max_calls
         THEN [b2 EXCEPT !.state = CLOSED, !.failure_count = 0,
                         !.success_count = 0]
         ELSE b2
    ELSE IF b1.state = CLOSED
         THEN [b1 EXCEPT !.failure_count = Max(0, @ - 1)]
         ELSE b1

\* execute, lines 119-134: the wrapped function returned
RecordSuccess(b) ==
    LET b1 == [b EXCEPT !.successful_calls = @ + 1] IN
    IF b1.state = HALF_OPEN
    THEN LET b2 == [b1 EXCEPT !.success_count = @ + 1] IN
         IF b2.success_count >= cfg.half_open_max_calls
         THEN [b2 EXCEPT !.state = CLOSED, !.failure_count = 0,
                         !.success_count = 0]
         ELSE b2
    ELSE IF b1.state = CLOSED
         THEN [b1 EXCEPT !.failure_count = Max(0, @ - 1)]
         ELSE b1

\* a breaker that opens one failure too late
RecordFailureLate(b, t) ==
    LET b1 == [b EXCEPT !.failed_calls = @ + 1, !.failure_count = @ + 1,
                        !.last_failure_time = t, !.success_count = 0] IN
    IF b1.state = CLOSED /\ b1.failure_count > cfg.failure_threshold
    THEN [b1 EXCEPT !.state = OPEN]
    ELSE IF b1.state = HALF_OPEN
         THEN [b1 EXCEPT !.state = OPEN]
         ELSE b1

\* a breaker that opens one failure too early
RecordFailureEager(b, t) ==
    LET b1 == [b EXCEPT !.failed_calls = @ + 1, !.failure_count = @ + 1,
                        !.last_failure_time = t, !.success_count = 0] IN
    IF b1.state = CLOSED /\ b1.failure_count + 1 >= cfg.failure_threshold
    THEN [b1 EXCEPT !.state = OPEN]
    ELSE IF b1.state = HALF_OPEN
         THEN [b1 EXCEPT !.state = OPEN]
         ELSE b1

\* execute, lines 138-159: the wrapped function raised
RecordFailure(b, t) ==
    LET b1 == [b EXCEPT !.failed_calls = @ + 1, !.failure_count = @ + 1,
                        !.last_failure_time = t, !.success_count = 0] IN
    IF b1.state = CLOSED /\ b1.failure_count >= cfg.failure_threshold
    THEN [b1 EXCEPT !.state = OPEN]
    ELSE IF b1.state = HALF_OPEN
         THEN [b1 EXCEPT !.state = OPEN]
         ELSE b1

\* CircuitBreaker.reset
ResetBreaker(b) ==
    [b EXCEPT !.state = CLOSED, !.failure_count = 0, !.success_count = 0,
              !.half_open_calls = 0]

(***************************************************************************)
(* retry.py: RetryManager                                                  *)
(***************************************************************************)
\* RetryManager.__init__, the statistics
RetryManagerInit ==
    [total_calls |-> 0, successful_calls |-> 0, failed_calls |-> 0,
     retried_calls |-> 0, total_retries |-> 0]

\* a thread that is not inside RetryManager.execute
NoCall ==
    [pc |-> "idle", retries |-> 0, k |-> 0, failsLeft |-> 0,
     retryable |-> TRUE, invocations |-> 0, outcome |-> "none"]

\* a retry loop that gives up one attempt too early
ExhaustedEarly(retries) == retries >= cfg.max_retries

\* execute, lines 344-348: is the retry budget used up after this failure?
Exhausted(retries) == retries > cfg.max_retries

\* the history variable: consecutive failures recorded while closed
StreakAfterFailure(b, s) ==
    IF b.state = CLOSED THEN Min(s + 1, MaxThreshold + 1) ELSE s
StreakAfterSuccess(b, s) == IF b.state = OPEN THEN s ELSE 0
StreakAfterAdmission(b, t, s) ==
    IF b.state = OPEN /\ RecoveryElapsed(b, t) THEN 0 ELSE s

InitRetry ==
    /\ now = 1
    /\ cfg \in [failure_threshold : 1..MaxThreshold,
                recovery_timeout : {1},
                half_open_max_calls : 1..MaxHalfOpen,
                max_retries : 0..MaxRetries,
                circuit_breaker : BOOLEAN]
    /\ cb = CircuitBreakerInit
    /\ rm = RetryManagerInit
    /\ call = [c \in Callers |-> NoCall]
    /\ callsLeft = MaxCalls
    /\ streak = 0
    /\ BatchOff /\ JobsOff /\ CacheOff /\ IntegrationOff

\* the clock advances
Tick ==
    /\ now < MaxTime
    /\ now' = now + 1

\* RetryManager.execute, lines 304-313: a thread enters execute with a
\* wrapped function that fails its first k invocations and then succeeds;
\* retryable tells whether its exception passes the retry_exceptions filter
BeginExecute(c) ==
    /\ call[c].pc = "idle"
    /\ callsLeft > 0
    /\ \E k \in 0..(MaxRetries + 1), r \in BOOLEAN :
         call' = [call EXCEPT ![c] =
                    [pc |-> "attempt", retries |-> 0, k |-> k, failsLeft |-> k,
                     retryable |-> r, invocations |-> 0, outcome |-> "none"]]
    /\ rm' = [rm EXCEPT !.total_calls = @ + 1]
    /\ callsLeft' = callsLeft - 1
    /\ UNCHANGED <<integrationVars, batchVars, jobVars, cacheVars,
                   now, cfg, cb, streak>>

\* execute_func() without a breaker: the function is called directly
AttemptDirect(c) ==
    /\ call[c].pc = "attempt"
    /\ ~cfg.circuit_breaker
    /\ call' = [call EXCEPT ![c].pc = "calling"]
    /\ UNCHANGED <<integrationVars, batchVars, jobVars, cacheVars,
                   now, cfg, cb, rm, callsLeft, streak>>

\* CircuitBreaker.execute lines 85-112, the call is admitted
AttemptAdmitted(c) ==
    /\ call[c].pc = "attempt"
    /\ cfg.circuit_breaker
    /\ ~Rejects(cb, now)
    /\ cb' = Admission(cb, now)
    /\ streak' = StreakAfterAdmission(cb, now, streak)
    /\ call' = [call EXCEPT ![c].pc = "calling"]
    /\ UNCHANGED <<integrationVars, batchVars, jobVars, cacheVars,
                   now, cfg, rm, callsLeft>>

\* a retry loop that treats the breaker's rejection like any failure of the
\* wrapped function: it backs off and tries again
AttemptRejectedRetried(c) ==
    /\ call[c].pc = "attempt"
    /\ cfg.circuit_breaker
    /\ Rejects(cb, now)
    /\ cb' = Admission(cb, now)
    /\ streak' = StreakAfterAdmission(cb, now, streak)
    /\ IF Exhausted(call[c].retries + 1)
       THEN /\ rm' = [rm EXCEPT !.total_retries = @ + 1, !.failed_calls = @ + 1]
            /\ call' = [call EXCEPT ![c].pc = "idle", ![c].retries = @ + 1,
                                    ![c].outcome = "CircuitBreakerError"]
       ELSE /\ rm' = [rm EXCEPT !.total_retries = @ + 1]
            /\ call' = [call EXCEPT ![c].pc = "sleep", ![c].retries = @ + 1]
    /\ UNCHANGED <<integrationVars, batchVars, jobVars, cacheVars,
                   now, cfg, callsLeft>>

\* CircuitBreaker.execute lines 85-108 reject the call, and
\* RetryManager.execute lines 326-330 re-raise the CircuitBreakerError
AttemptRejected(c) ==
    /\ call[c].pc = "attempt"
    /\ cfg.circuit_breaker
    /\ Rejects(cb, now)
    /\ cb' = Admission(cb, now)
    /\ streak' = StreakAfterAdmission(cb, now, streak)
    /\ rm' = [rm EXCEPT !.failed_calls = @ + 1]
    /\ call' = [call EXCEPT ![c].pc = "idle",
                            ![c].outcome = "CircuitBreakerError"]
    /\ UNCHANGED <<integrationVars, batchVars, jobVars, cacheVars,
                   now, cfg, callsLeft>>

\* the wrapped function returns: CircuitBreaker.execute lines 116-136 and
\* RetryManager.execute lines 317-324
FuncReturns(c) ==
    /\ call[c].pc = "calling"
    /\ call[c].failsLeft = 0
    /\ cb' = IF cfg.circuit_breaker THEN RecordSuccess(cb) ELSE cb
    /\ streak' = IF cfg.circuit_breaker THEN StreakAfterSuccess(cb, streak)
                 ELSE streak
    /\ rm' = [rm EXCEPT !.successful_calls = @ + 1,
                        !.retried_calls =
                            IF call[c].retries > 0 THEN @ + 1 ELSE @]
    /\ call' = [call EXCEPT ![c].pc = "idle", ![c].outcome = "ok",
                            ![c].invocations = @ + 1]
    /\ UNCHANGED <<integrationVars, batchVars, jobVars, cacheVars,
                   now, cfg, callsLeft>>

\* the wrapped function raises: CircuitBreaker.execute lines 138-162 and
\* RetryManager.execute lines 332-356
FuncRaises(c) ==
    /\ call[c].pc = "calling"
    /\ call[c].failsLeft > 0
    /\ cb' = IF cfg.circuit_breaker THEN RecordFailure(cb, now) ELSE cb
    /\ streak' = IF cfg.circuit_breaker THEN StreakAfterFailure(cb, streak)
                 ELSE streak
    /\ LET cl == [call[c] EXCEPT !.invocations = @ + 1, !.failsLeft = @ - 1] IN
       IF ~cl.retryable
       THEN /\ rm' = [rm EXCEPT !.failed_calls = @ + 1]
            /\ call' = [call EXCEPT ![c] =
                          [cl EXCEPT !.pc = "idle", !.outcome = "FuncError"]]
       ELSE IF Exhausted(cl.retries + 1)
       THEN /\ rm' = [rm EXCEPT !.total_retries = @ + 1,
                                !.failed_calls = @ + 1]
            /\ call' = [call EXCEPT ![c] =
                          [cl EXCEPT !.pc = "idle", !.retries = @ + 1,
                                     !.outcome = "FuncError"]]
       ELSE /\ rm' = [rm EXCEPT !.total_retries = @ + 1]
            /\ call' = [call EXCEPT ![c] =
                          [cl EXCEPT !.pc = "sleep", !.retries = @ + 1]]
    /\ UNCHANGED <<integrationVars, batchVars, jobVars, cacheVars,
                   now, cfg, callsLeft>>

\* RetryManager.execute line 356: the backoff sleep ends, next attempt
WakeUp(c) ==
    /\ call[c].pc = "sleep"
    /\ call' = [call EXCEPT ![c].pc = "attempt"]
    /\ UNCHANGED <<integrationVars, batchVars, jobVars, cacheVars,
                   now, cfg, cb, rm, callsLeft, streak>>

\* CircuitBreaker.reset, called on demand
Reset ==
    /\ cfg.circuit_breaker
    /\ cb.state # CLOSED
    /\ cb' = ResetBreaker(cb)
    /\ streak' = 0
    /\ UNCHANGED <<integrationVars, batchVars, jobVars, cacheVars,
                   now, cfg, rm, call, callsLeft>>

TickRetry ==
    /\ Tick
    /\ UNCHANGED <<integrationVars, retryVars, batchVars, jobVars, cacheVars>>

NextRetry ==
    \/ TickRetry
    \/ \E c \in Callers : BeginExecute(c)
    \/ \E c \in Callers : AttemptDirect(c)
    \/ \E c \in Callers : AttemptAdmitted(c)
    \/ \E c \in Callers : AttemptRejected(c)
    \/ \E c \in Callers : FuncReturns(c)
    \/ \E c \in Callers : FuncRaises(c)
    \/ \E c \in Callers : WakeUp(c)
    \/ Reset

vars == <<now, retryVars, batchVars, jobVars, cacheVars, integrationVars>>
SpecRetry == InitRetry /\ [][NextRetry]_vars

(***************************************************************************)
(* The breaker under a longer run of calls: a retry manager with a circuit *)
(* breaker of the largest failure threshold, called once more than in      *)
(* SpecRetry, so that successes fall between the failures that open it.    *)
(***************************************************************************)
InitBreaker ==
    /\ now = 1
    /\ cfg \in [failure_threshold : {MaxThreshold + 1},
                recovery_timeout : {1},
                half_open_max_calls : 1..MaxHalfOpen,
                max_retries : {MaxRetries},
                circuit_breaker : {TRUE}]
    /\ cb = CircuitBreakerInit
    /\ rm = RetryManagerInit
    /\ call = [c \in Callers |-> NoCall]
    /\ callsLeft = MaxCalls + 1
    /\ streak = 0
    /\ BatchOff /\ JobsOff /\ CacheOff /\ IntegrationOff

NextBreaker ==
    \/ TickRetry
    \/ \E c \in Callers : BeginExecute(c)
    \/ \E c \in Callers : AttemptAdmitted(c)
    \/ \E c \in Callers : AttemptRejected(c)
    \/ \E c \in Callers : FuncReturns(c)
    \/ \E c \in Callers : FuncRaises(c)
    \/ \E c \in Callers : WakeUp(c)
    \/ Reset

SpecBreaker == InitBreaker /\ [][NextBreaker]_vars

(***************************************************************************)
(* The breaker in front of a service that recovers: the wrapped functions  *)
(* of the calls that begin at HealTime or later succeed.  Threads that are *)
(* inside execute go on, wrapped functions end, and calls keep being       *)
(* submitted while there are calls left.                                   *)
(***************************************************************************)
InitBreakerFair ==
    /\ now = 1
    /\ cfg \in [failure_threshold : {1},
                recovery_timeout : {1},
                half_open_max_calls : 1..MaxHalfOpen,
                max_retries : {MaxRetries},
                circuit_breaker : {TRUE}]
    /\ cb = CircuitBreakerInit
    /\ rm = RetryManagerInit
    /\ call = [c \in Callers |-> NoCall]
    /\ callsLeft = MaxCalls + 1
    /\ streak = 0
    /\ BatchOff /\ JobsOff /\ CacheOff /\ IntegrationOff

\* RetryManager.execute, lines 304-313, with a wrapped function that
\* succeeds when the call begins at HealTime or later
BeginExecuteHealing(c) ==
    /\ BeginExecute(c)
    /\ now >= HealTime => call'[c].k = 0

\* CircuitBreaker.execute lines 85-112: the admission block
Attempt(c) == AttemptAdmitted(c) \/ AttemptRejected(c)

\* CircuitBreaker.execute lines 114-162: the wrapped function ends
FuncEnds(c) == FuncReturns(c) \/ FuncRaises(c)

NextBreakerFair ==
    \/ TickRetry
    \/ \E c \in Callers : BeginExecuteHealing(c)
    \/ \E c \in Callers : Attempt(c)
    \/ \E c \in Callers : FuncEnds(c)
    \/ \E c \in Callers : WakeUp(c)

FairCallers ==
    \A c \in Callers :
        /\ WF_vars(BeginExecuteHealing(c))
        /\ WF_vars(Attempt(c))
        /\ WF_vars(FuncEnds(c))
        /\ WF_vars(WakeUp(c))

SpecBreakerFair == InitBreakerFair /\ [][NextBreakerFair]_vars /\ FairCallers

(***************************************************************************)
(* batch_processing.py: BatchProcessor                                     *)
(* The items are 1..n, so that item i is the i-th input.  Throttling       *)
(* (_throttled_process, lines 190-202) only delays the call of             *)
(* process_func and is covered by the arbitrary interleaving of workers.   *)
(***************************************************************************)
None == "None"

\* what process_func(item) does: return a value, return None, or raise
Behaviours == {"value", "none", "raise"}

Items == 1..bat.n

\* process_batch line 101: batch = items[i:i+batch_size]
Chunk == {j \in Items : offset < j /\ j <= offset + bat.batch_size}

\* all orders in which a set of futures can be iterated
Orders(S) ==
    {q \in [1..Cardinality(S) -> S] :
        \A a, b \in 1..Cardinality(S) : a # b => q[a] # q[b]}

\* an outcome that keeps a result next to the exception
CollectOutcomeBoth(j) ==
    [item |-> j,
     result |-> IF behav[j] = "none" THEN None ELSE "result",
     error |-> IF behav[j] = "raise" THEN "exception" ELSE None]

\* _process_batch_concurrent lines 168-175: the tuple appended for a future
CollectOutcome(j) ==
    IF behav[j] = "raise"
    THEN [item |-> j, result |-> None, error |-> "exception"]
    ELSE [item |-> j,
          result |-> IF behav[j] = "value" THEN "result" ELSE None,
          error |-> None]

\* process_batch lines 120-121
Successful(rs) == Cardinality({i \in 1..Len(rs) : rs[i].error = None})

InitBatch ==
    /\ now = 1
    /\ bat \in [n : 0..MaxItems, batch_size : 1..MaxBatchSize,
                max_workers : 1..MaxWorkers, timeout : BOOLEAN]
    /\ behav \in [1..bat.n -> Behaviours]
    /\ bpc = "start"
    /\ offset = 0
    /\ fut = [j \in 1..bat.n |-> "none"]
    /\ pendingF = {}
    /\ yieldq = <<>>
    /\ waiterList = <<>>
    /\ chunkResults = <<>>
    /\ results = <<>>
    /\ metrics = [total_batches |-> 0, total_items |-> 0,
                  successful_items |-> 0, failed_items |-> 0]
    /\ adaptive = <<>>
    /\ RetryOff /\ JobsOff /\ CacheOff /\ IntegrationOff

\* process_batch lines 84-97
StartBatch ==
    /\ bpc = "start"
    /\ bpc' = "loop"
    /\ metrics' = [metrics EXCEPT !.total_batches = @ + 1,
                                  !.total_items = @ + bat.n]
    /\ UNCHANGED <<bat, behav, offset, fut, pendingF, yieldq, waiterList,
                   chunkResults, results>>
    /\ UNCHANGED <<integrationVars, now, adaptive, retryVars, jobVars,
                   cacheVars>>

\* process_batch lines 100-101 and _process_batch_concurrent lines 157-164:
\* the next chunk is cut and all its items are submitted to a new executor
SubmitChunk ==
    /\ bpc = "loop"
    /\ offset < bat.n
    /\ fut' = [j \in Items |-> IF j \in Chunk THEN "queued" ELSE fut[j]]
    /\ chunkResults' = <<>>
    /\ bpc' = "submitted"
    /\ UNCHANGED <<bat, behav, offset, pendingF, yieldq, waiterList, results,
                   metrics>>
    /\ UNCHANGED <<integrationVars, now, adaptive, retryVars, jobVars,
                   cacheVars>>

\* an executor that starts a thread for every work item
WorkerStartUnbounded(j) ==
    /\ fut[j] = "queued"
    /\ \A i \in Items : i < j => fut[i] # "queued"
    /\ fut' = [fut EXCEPT ![j] = "running"]
    /\ UNCHANGED <<bat, behav, bpc, offset, pendingF, yieldq, waiterList,
                   chunkResults, results, metrics>>
    /\ UNCHANGED <<integrationVars, now, adaptive, retryVars, jobVars,
                   cacheVars>>

\* ThreadPoolExecutor: a free worker takes the oldest queued work item
WorkerStart(j) ==
    /\ fut[j] = "queued"
    /\ \A i \in Items : i < j => fut[i] # "queued"
    /\ Cardinality({i \in Items : fut[i] = "running"}) < bat.max_workers
    /\ fut' = [fut EXCEPT ![j] = "running"]
    /\ UNCHANGED <<bat, behav, bpc, offset, pendingF, yieldq, waiterList,
                   chunkResults, results, metrics>>
    /\ UNCHANGED <<integrationVars, now, adaptive, retryVars, jobVars,
                   cacheVars>>

\* _throttled_process lines 179-205 ends: the future gets its result or
\* exception, and a waiting as_completed is notified
WorkerFinish(j) ==
    /\ fut[j] = "running"
    /\ fut' = [fut EXCEPT ![j] = "done"]
    /\ waiterList' = IF bpc = "collect" /\ j \in pendingF
                     THEN Append(waiterList, j) ELSE waiterList
    /\ UNCHANGED <<bat, behav, bpc, offset, pendingF, yieldq,
                   chunkResults, results, metrics>>
    /\ UNCHANGED <<integrationVars, now, adaptive, retryVars, jobVars,
                   cacheVars>>

\* line 167, as_completed starts: the futures already finished are handed
\* out first, in the iteration order of a set
AsCompletedStart ==
    /\ bpc = "submitted"
    /\ LET finished == {j \in Chunk : fut[j] = "done"} IN
         /\ yieldq' \in Orders(finished)
         /\ pendingF' = Chunk \ finished
    /\ waiterList' = <<>>
    /\ bpc' = "collect"
    /\ UNCHANGED <<bat, behav, offset, fut, chunkResults, results, metrics>>
    /\ UNCHANGED <<integrationVars, now, adaptive, retryVars, jobVars,
                   cacheVars>>

\* lines 167-175: as_completed hands out a future, its outcome is appended
Collect ==
    /\ bpc = "collect"
    /\ yieldq # <<>>
    /\ chunkResults' = Append(chunkResults, CollectOutcome(Head(yieldq)))
    /\ yieldq' = Tail(yieldq)
    /\ UNCHANGED <<bat, behav, bpc, offset, fut, pendingF, waiterList,
                   results, metrics>>
    /\ UNCHANGED <<integrationVars, now, adaptive, retryVars, jobVars,
                   cacheVars>>

\* as_completed wakes up: the futures that finished meanwhile are handed out
\* in the order they finished
Harvest ==
    /\ bpc = "collect"
    /\ yieldq = <<>>
    /\ waiterList # <<>>
    /\ yieldq' = waiterList
    /\ pendingF' = pendingF \ {waiterList[i] : i \in 1..Len(waiterList)}
    /\ waiterList' = <<>>
    /\ UNCHANGED <<bat, behav, bpc, offset, fut, chunkResults, results,
                   metrics>>
    /\ UNCHANGED <<integrationVars, now, adaptive, retryVars, jobVars,
                   cacheVars>>

\* as_completed(timeout=timeout) finds the timeout expired while futures
\* are outstanding and raises TimeoutError; nothing in
\* _process_batch_concurrent or process_batch catches it
TimeoutExpires ==
    /\ bpc = "collect"
    /\ bat.timeout
    /\ yieldq = <<>>
    /\ pendingF # {}
    /\ bpc' = "unwinding"
    /\ UNCHANGED <<bat, behav, offset, fut, pendingF, yieldq, waiterList,
                   chunkResults, results, metrics>>
    /\ UNCHANGED <<integrationVars, now, adaptive, retryVars, jobVars,
                   cacheVars>>

\* the with-block of line 159 is left by the TimeoutError: the executor
\* waits for all its work items, then the error leaves process_batch
RaiseTimeout ==
    /\ bpc = "unwinding"
    /\ \A j \in Chunk : fut[j] = "done"
    /\ bpc' = "raised"
    /\ UNCHANGED <<bat, behav, offset, fut, pendingF, yieldq, waiterList,
                   chunkResults, results, metrics>>
    /\ UNCHANGED <<integrationVars, now, adaptive, retryVars, jobVars,
                   cacheVars>>

\* results.extend that forgets the earlier chunks
ExtendOverwrite(rs, batch_results) == batch_results

\* process_batch line 108: results.extend(batch_results)
Extend(rs, batch_results) == rs \o batch_results

\* lines 176-177 and process_batch lines 102-108: every future of the chunk
\* was handed out, the chunk's results are appended
ChunkDone ==
    /\ bpc = "collect"
    /\ yieldq = <<>>
    /\ pendingF = {}
    /\ results' = Extend(results, chunkResults)
    /\ offset' = offset + bat.batch_size
    /\ bpc' = "loop"
    /\ UNCHANGED <<bat, behav, fut, pendingF, yieldq, waiterList,
                   chunkResults, metrics>>
    /\ UNCHANGED <<integrationVars, now, adaptive, retryVars, jobVars,
                   cacheVars>>

\* process_batch lines 116-138: no chunk is left, the metrics are updated
\* and results is returned
ReturnResults ==
    /\ bpc = "loop"
    /\ offset >= bat.n
    /\ metrics' = [metrics EXCEPT
                     !.successful_items = @ + Successful(results),
                     !.failed_items = @ + Len(results) - Successful(results)]
    /\ bpc' = "returned"
    /\ UNCHANGED <<bat, behav, offset, fut, pendingF, yieldq, waiterList,
                   chunkResults, results>>
    /\ UNCHANGED <<integrationVars, now, adaptive, retryVars, jobVars,
                   cacheVars>>

NextBatch ==
    \/ StartBatch
    \/ SubmitChunk
    \/ \E j \in Items : WorkerStart(j)
    \/ \E j \in Items : WorkerFinish(j)
    \/ AsCompletedStart
    \/ Collect
    \/ Harvest
    \/ TimeoutExpires
    \/ RaiseTimeout
    \/ ChunkDone
    \/ ReturnResults

SpecBatch == InitBatch /\ [][NextBatch]_vars

(***************************************************************************)
(* batch_processing.py: AdaptiveBatchProcessor.  A process_batch call is   *)
(* taken from the return of BatchProcessor.process_batch on: the results   *)
(* it returned decide everything that follows.  A call that raises         *)
(* records nothing.  Success rates are percentages; the batches are such   *)
(* that they are whole numbers, and the mean of the history is compared    *)
(* with the target by comparing the sum with target * length.              *)
(***************************************************************************)
\* line 349: the history keeps the last 10 batches
HistoryLimit == 10
\* target_success_rate, the default of line 270
TargetSuccessRate == 95

\* the results of a batch: their number and how many have no error
BatchOutcomes ==
    {[n |-> 0, ok |-> 0], [n |-> 10, ok |-> 9], [n |-> 10, ok |-> 10]}

\* process_batch line 338
SuccessRate(o) == IF o.n > 0 THEN (o.ok * 100) \div o.n ELSE 0

RECURSIVE SumSeq(_)
SumSeq(q) == IF q = <<>> THEN 0 ELSE Head(q) + SumSeq(Tail(q))

\* process_batch lines 349-350: performance_history[-10:]
LastTen(q) ==
    IF Len(q) > HistoryLimit
    THEN SubSeq(q, Len(q) - HistoryLimit + 1, Len(q))
    ELSE q

\* an adaptation that also steps down when the mean equals the target
BelowOrAtTarget(h, target) == SumSeq(h) <= target * Len(h)

\* _adapt_concurrency lines 367-370: avg_success_rate < target_success_rate
BelowTarget(h, target) == SumSeq(h) < target * Len(h)

\* _adapt_concurrency, lines 361-389: the new current_workers
AdaptConcurrency(a, h) ==
    IF h = <<>> THEN a.current_workers
    ELSE IF BelowTarget(h, a.target_success_rate)
    THEN Max(a.min_workers, a.current_workers - 1)
    ELSE IF a.current_workers < a.max_workers
    THEN Min(a.max_workers, a.current_workers + 1)
    ELSE a.current_workers

\* AdaptiveBatchProcessor.__init__, lines 264-299, with
\* min_workers <= max_workers; batches counts the recorded batches modulo
\* adaptation_interval
InitAdaptive ==
    /\ now = 0
    /\ \E lo \in 1..MaxAdaptWorkers, hi \in 1..MaxAdaptWorkers,
          iv \in {1, MaxInterval} :
         /\ lo <= hi
         /\ adaptive = [min_workers |-> lo, max_workers |-> hi,
                        target_success_rate |-> TargetSuccessRate,
                        adaptation_interval |-> iv,
                        current_workers |-> hi,
                        batches_since_adaptation |-> 0,
                        performance_history |-> <<>>,
                        batches |-> 0]
    /\ bat = <<>> /\ behav = <<>> /\ bpc = "off" /\ offset = 0 /\ fut = <<>>
    /\ pendingF = {} /\ yieldq = <<>> /\ waiterList = <<>>
    /\ chunkResults = <<>> /\ results = <<>> /\ metrics = <<>>
    /\ RetryOff /\ JobsOff /\ CacheOff /\ IntegrationOff

\* AdaptiveBatchProcessor.process_batch, lines 336-359, under history_lock:
\* the batch whose results are o is recorded
RecordBatch(o) ==
    /\ LET h == LastTen(Append(adaptive.performance_history, SuccessRate(o)))
           since == adaptive.batches_since_adaptation + 1
           adapt == since >= adaptive.adaptation_interval
       IN  adaptive' =
             [adaptive EXCEPT
                !.performance_history = h,
                !.current_workers =
                    IF adapt THEN AdaptConcurrency(adaptive, h) ELSE @,
                !.batches_since_adaptation = IF adapt THEN 0 ELSE since,
                !.batches = (@ + 1) % adaptive.adaptation_interval]
    /\ UNCHANGED <<bat, behav, bpc, offset, fut, pendingF, yieldq, waiterList,
                   chunkResults, results, metrics>>
    /\ UNCHANGED <<integrationVars, now, retryVars, jobVars, cacheVars>>

NextAdaptive == \E o \in BatchOutcomes : RecordBatch(o)

SpecAdaptive == InitAdaptive /\ [][NextAdaptive]_vars

(***************************************************************************)
(* background_processing.py: BackgroundJobManager                          *)
(* Job ids are 1, 2, ... in the order of enqueue, which is the iteration   *)
(* order of the jobs dict.  Timestamps are clock values >= 1 and 0 stands  *)
(* for None; progress is counted in halves, 1.0 being ProgressFull.  The   *)
(* manager is modelled between construction and shutdown (running = TRUE). *)
(***************************************************************************)
\* the worker threads started by __init__ (num_workers = 2)
Workers == {"JobWorker-0", "JobWorker-1"}
NoTime == 0
ProgressFull == 2
Terminal == {"completed", "failed", "cancelled"}

\* the progress values and messages passed to update_progress
ProgressArgs == {0 - 1, 1, 3}
MessageArgs == {None, "msg"}
\* what a job's callable returns, and the messages of what it raises
ReturnValues == {"result"}
ErrorMessages == {"boom"}

\* dataclass Job, lines 21-37, as created by enqueue; id, name, func, args,
\* kwargs, created_at and metadata are written once here and do not take
\* part in any decision of the manager
NewJob ==
    [status |-> "pending", result |-> None, error |-> None,
     started_at |-> NoTime, completed_at |-> NoTime,
     progress |-> 0, progress_message |-> None]

NoApiCall == [op |-> "none"]
IdleThread == [pc |-> "scan", job |-> 0, outcome |-> "none", value |-> None]

\* update_progress without the clamp
ClampNot(p) == p

\* update_progress line 217: max(0.0, min(1.0, progress))
Clamp(p) == Max(0, Min(ProgressFull, p))

\* a cancel_job that does not look at the status
CancellableAlways(job) == TRUE

\* cancel_job lines 242-244: only a job that is not yet terminal is cancelled
Cancellable(job) == job.status \notin Terminal

\* a worker that overwrites a cancelled job
MayFinishAlways(job) == TRUE

\* _process_job lines 290-291 and 307-308: "Only update if not cancelled"
MayFinish(job) == job.status # "cancelled"

\* a completion that records no completion time
CompletedUnstamped(job, r, t) ==
    [job EXCEPT !.result = r, !.status = "completed",
                !.progress = ProgressFull]

\* _process_job lines 292-295
Completed(job, r, t) ==
    [job EXCEPT !.result = r, !.status = "completed", !.completed_at = t,
                !.progress = ProgressFull]

\* a failure handler that marks the job completed
FailedAsCompleted(job, msg, t) ==
    [job EXCEPT !.error = msg, !.status = "completed", !.completed_at = t]

\* _process_job lines 309-311
Failed(job, msg, t) ==
    [job EXCEPT !.error = msg, !.status = "failed", !.completed_at = t]

\* a reaper that goes by the age of the start of a job, whatever its status
ExpiredByStart(t) ==
    {j \in DOMAIN jobs :
        /\ jobs[j].started_at # NoTime
        /\ t - jobs[j].started_at > JobTtl}

\* _cleanup_loop lines 325-328: the jobs the reaper removes
Expired(t) ==
    {j \in DOMAIN jobs :
        /\ jobs[j].status \in Terminal
        /\ jobs[j].completed_at # NoTime
        /\ t - jobs[j].completed_at > JobTtl}

\* a scan that takes the first job that has not ended, claimed or not
FirstUnfinished ==
    {j \in DOMAIN jobs :
        /\ jobs[j].status \in {"pending", "running"}
        /\ \A i \in DOMAIN jobs : i < j => jobs[i].status \in Terminal}

\* _worker_loop lines 259-264: the first pending job of the table
FirstPending ==
    {j \in DOMAIN jobs :
        /\ jobs[j].status = "pending"
        /\ \A i \in DOMAIN jobs : i < j => jobs[i].status # "pending"}

InitJobs ==
    /\ now = 1
    /\ jobs = <<>>
    /\ nextId = 0
    /\ worker = [w \in Workers |-> IdleThread]
    /\ running = TRUE
    /\ lastCall = NoApiCall
    /\ RetryOff /\ BatchOff /\ CacheOff /\ IntegrationOff

TickJobs ==
    /\ Tick
    /\ lastCall' = NoApiCall
    /\ UNCHANGED <<jobs, nextId, worker, running>>
    /\ UNCHANGED <<integrationVars, retryVars, batchVars, cacheVars>>

\* enqueue, lines 77-109, in a behaviour that enqueues at most n jobs
EnqueueWithin(n) ==
    /\ nextId < n
    /\ nextId' = nextId + 1
    /\ jobs' = [j \in DOMAIN jobs \cup {nextId + 1} |->
                  IF j = nextId + 1 THEN NewJob ELSE jobs[j]]
    /\ lastCall' = [op |-> "enqueue", job |-> nextId + 1]
    /\ UNCHANGED <<worker, running>>
    /\ UNCHANGED <<integrationVars, now, retryVars, batchVars, cacheVars>>

Enqueue == EnqueueWithin(MaxJobs)

\* update_progress, lines 191-222
UpdateProgress(j, p, m) ==
    /\ IF j \in DOMAIN jobs /\ jobs[j].status = "running"
       THEN /\ jobs' = [jobs EXCEPT
                          ![j].progress = Clamp(p),
                          ![j].progress_message = IF m # None THEN m ELSE @]
            /\ lastCall' = [op |-> "update_progress", job |-> j, ret |-> TRUE]
       ELSE /\ jobs' = jobs
            /\ lastCall' = [op |-> "update_progress", job |-> j, ret |-> FALSE]
    /\ UNCHANGED <<nextId, worker, running>>
    /\ UNCHANGED <<integrationVars, now, retryVars, batchVars, cacheVars>>

\* cancel_job, lines 224-250
CancelJob(j) ==
    /\ IF j \in DOMAIN jobs /\ Cancellable(jobs[j])
       THEN /\ jobs' = [jobs EXCEPT ![j].status = "cancelled",
                                    ![j].completed_at = now]
            /\ lastCall' = [op |-> "cancel_job", job |-> j, ret |-> TRUE]
       ELSE /\ jobs' = jobs
            /\ lastCall' = [op |-> "cancel_job", job |-> j, ret |-> FALSE]
    /\ UNCHANGED <<nextId, worker, running>>
    /\ UNCHANGED <<integrationVars, now, retryVars, batchVars, cacheVars>>

\* _worker_loop lines 254-267: the worker claims the first pending job; when
\* nothing is pending it sleeps and scans again (lines 268-270)
Claim(w) ==
    /\ w \in Workers
    /\ running
    /\ worker[w].pc = "scan"
    /\ \E j \in FirstPending :
         /\ jobs' = [jobs EXCEPT ![j].status = "running",
                                 ![j].started_at = now]
         /\ worker' = [worker EXCEPT ![w] =
                         [pc |-> "exec", job |-> j, outcome |-> "none",
                          value |-> None]]
    /\ lastCall' = NoApiCall
    /\ UNCHANGED <<nextId, running>>
    /\ UNCHANGED <<integrationVars, now, retryVars, batchVars, cacheVars>>

\* _process_job lines 281-297: the job's callable returns r
JobReturns(w, r) ==
    /\ w \in Workers
    /\ worker[w].pc = "exec"
    /\ LET j == worker[w].job IN
         jobs' = IF j \in DOMAIN jobs /\ MayFinish(jobs[j])
                 THEN [jobs EXCEPT ![j] = Completed(jobs[j], r, now)]
                 ELSE jobs
    /\ worker' = [worker EXCEPT ![w].pc = "scan",
                                ![w].outcome = "returned", ![w].value = r]
    /\ lastCall' = NoApiCall
    /\ UNCHANGED <<nextId, running>>
    /\ UNCHANGED <<integrationVars, now, retryVars, batchVars, cacheVars>>

\* a worker thread that an exception of a job callable ends
JobRaisesKillsWorker(w, msg) ==
    /\ w \in Workers
    /\ worker[w].pc = "exec"
    /\ LET j == worker[w].job IN
         jobs' = IF j \in DOMAIN jobs /\ MayFinish(jobs[j])
                 THEN [jobs EXCEPT ![j] = Failed(jobs[j], msg, now)]
                 ELSE jobs
    /\ worker' = [worker EXCEPT ![w].pc = "dead",
                                ![w].outcome = "raised", ![w].value = msg]
    /\ lastCall' = NoApiCall
    /\ UNCHANGED <<nextId, running>>
    /\ UNCHANGED <<integrationVars, now, retryVars, batchVars, cacheVars>>

\* _process_job lines 299-311: the job's callable raises an Exception whose
\* str() is msg; the handler ends normally, back to the worker loop
JobRaises(w, msg) ==
    /\ w \in Workers
    /\ worker[w].pc = "exec"
    /\ LET j == worker[w].job IN
         jobs' = IF j \in DOMAIN jobs /\ MayFinish(jobs[j])
                 THEN [jobs EXCEPT ![j] = Failed(jobs[j], msg, now)]
                 ELSE jobs
    /\ worker' = [worker EXCEPT ![w].pc = "scan",
                                ![w].outcome = "raised", ![w].value = msg]
    /\ lastCall' = NoApiCall
    /\ UNCHANGED <<nextId, running>>
    /\ UNCHANGED <<integrationVars, now, retryVars, batchVars, cacheVars>>

\* _cleanup_loop lines 318-335: the reaper wakes up and removes old jobs
Cleanup ==
    /\ running
    /\ Expired(now) # {}
    /\ jobs' = [j \in DOMAIN jobs \ Expired(now) |-> jobs[j]]
    /\ lastCall' = NoApiCall
    /\ UNCHANGED <<nextId, worker, running>>
    /\ UNCHANGED <<integrationVars, now, retryVars, batchVars, cacheVars>>

NextJobs ==
    \/ TickJobs
    \/ Enqueue
    \/ \E j \in 1..MaxJobs, p \in ProgressArgs, m \in MessageArgs :
         UpdateProgress(j, p, m)
    \/ \E j \in 1..MaxJobs : CancelJob(j)
    \/ \E w \in Workers : Claim(w)
    \/ \E w \in Workers, r \in ReturnValues : JobReturns(w, r)
    \/ \E w \in Workers, msg \in ErrorMessages : JobRaises(w, msg)
    \/ Cleanup

SpecJobs == InitJobs /\ [][NextJobs]_vars

(***************************************************************************)
(* The workers under fair scheduling: a worker thread that can claim a     *)
(* pending job eventually does, and every job callable terminates, by      *)
(* returning or by raising.  Nothing is assumed of the threads that call   *)
(* enqueue and cancel_job.  No decision of the workers reads the clock,    *)
(* and the reaper removes terminal jobs only, so the behaviours are taken  *)
(* within one clock value.                                                 *)
(***************************************************************************)
\* _process_job lines 281-311: the job's callable terminates
JobEnds(w) ==
    \/ \E r \in ReturnValues : JobReturns(w, r)
    \/ \E msg \in ErrorMessages : JobRaises(w, msg)

NextJobsFair ==
    \/ EnqueueWithin(MaxQueued)
    \/ \E j \in 1..MaxQueued : CancelJob(j)
    \/ \E w \in Workers : Claim(w)
    \/ \E w \in Workers : JobEnds(w)

FairWorkers ==
    \A w \in Workers : WF_vars(Claim(w)) /\ WF_vars(JobEnds(w))

SpecJobsFair == InitJobs /\ [][NextJobsFair]_vars /\ FairWorkers

(***************************************************************************)
(* cache.py: PersistentCache (no Redis client, the default)                *)
(* memory_cache maps a key to its entry; access_times is kept as the       *)
(* sequence of its (key, time) items in dict order, which decides ties     *)
(* when the least recently used entries are evicted.  files maps a key to  *)
(* the entry stored in <key>.json.                                         *)
(***************************************************************************)
Keys == {"k1", "k2"}
\* cached values: a string, and a tuple that JSON stores as a list
Values == {"str", "tuple"}
Readers == {"r1"}

\* json.load(json.dump(v)), lines 313-314 and 223-224
JsonRoundTrip(v) == IF v = "tuple" THEN "list" ELSE v

NoSet == [value |-> None, at |-> 0 - 1, alone |-> TRUE]
IdleReader == [pc |-> "idle", key |-> "k1", value |-> None, ret |-> None,
               error |-> None, began |-> 0, overtaken |-> FALSE]

\* get() returns v to the thread
Return(rd, v) == [IdleReader EXCEPT !.key = rd.key, !.ret = v]

\* get() ends with exception e, which reaches the caller
Raise(rd, e) == [IdleReader EXCEPT !.key = rd.key, !.error = e]

\* what json.load finds in <key>.json:
\*   "entry"          the object written by _set_in_file
\*   "not_json"       text that is not JSON
\*   "no_expires_at"  an object without the key expires_at
\*   "no_value"       an object with expires_at and without the key value
\*   "no_created_at"  an object with value and expires_at only
\*   "not_object"     JSON that is not an object: an array, string or number
FileKinds == {"entry", "not_json", "no_expires_at", "no_value",
              "no_created_at", "not_object"}

\* _get_from_file lines 221-238 on a file that exists: the value returned,
\* the exception that leaves the function, and whether the file is removed
ReadFile(f, t) ==
    CASE f.json = "not_json" ->
           [ret |-> None, error |-> None, removed |-> TRUE]
      [] f.json = "no_expires_at" ->
           [ret |-> None, error |-> None, removed |-> TRUE]
      [] f.json = "not_object" ->
           [ret |-> None, error |-> "TypeError", removed |-> FALSE]
      [] f.json = "no_value" ->
           [ret |-> None, error |-> None, removed |-> TRUE]
      [] OTHER ->
           IF t > f.expires_at
           THEN [ret |-> None, error |-> None, removed |-> TRUE]
           ELSE [ret |-> f.value, error |-> None, removed |-> FALSE]

\* dict operations on access_times
AtKeys(at) == {at[i].key : i \in 1..Len(at)}
AtPut(at, k, t) ==
    IF k \in AtKeys(at)
    THEN [i \in 1..Len(at) |->
            IF at[i].key = k THEN [key |-> k, time |-> t] ELSE at[i]]
    ELSE Append(at, [key |-> k, time |-> t])
AtDel(at, ks) == SelectSeq(at, LAMBDA e : e.key \notin ks)
MemDel(mem, ks) == [k \in DOMAIN mem \ ks |-> mem[k]]
MemPut(mem, k, e) == [x \in DOMAIN mem \cup {k} |-> IF x = k THEN e ELSE mem[x]]

\* an eviction that removes the most recently used entries
Newest(at, n) ==
    {at[i].key : i \in
        {i \in 1..Len(at) :
            Cardinality({j \in 1..Len(at) :
                \/ at[j].time > at[i].time
                \/ at[j].time = at[i].time /\ j > i}) < n}}

\* _cleanup_memory_cache lines 99-107: the keys of sorted_keys[:to_remove],
\* sorted(...) being stable
Oldest(at, n) ==
    {at[i].key : i \in
        {i \in 1..Len(at) :
            Cardinality({j \in 1..Len(at) :
                \/ at[j].time < at[i].time
                \/ at[j].time = at[i].time /\ j < i}) < n}}

\* _cleanup_memory_cache, lines 80-111
CleanupMemory(mem, at, t) ==
    LET expired == {k \in DOMAIN mem : t > mem[k].expires_at}
        mem1 == MemDel(mem, expired)
        at1 == AtDel(at, expired)
        over == Cardinality(DOMAIN mem1) - ccfg.max_memory_items
        lru == IF over > 0 THEN Oldest(at1, over) ELSE {}
    IN  [mem |-> MemDel(mem1, lru), at |-> AtDel(at1, lru)]

\* _set_in_memory, lines 288-300
SetInMemory(mem, at, k, v, ttl, t) ==
    LET mem1 == MemPut(mem, k, [value |-> v, expires_at |-> t + ttl])
        at1 == AtPut(at, k, t)
    IN  IF Cardinality(DOMAIN mem1) > ccfg.max_memory_items
        THEN CleanupMemory(mem1, at1, t)
        ELSE [mem |-> mem1, at |-> at1]

\* _set_in_file, lines 302-316
SetInFile(fs, k, v, ttl, t) ==
    MemPut(fs, k, [json |-> "entry", value |-> JsonRoundTrip(v),
                   expires_at |-> t + ttl])

\* a set() or invalidate() of key k overtakes the get() calls of k that are
\* in progress
Overtake(k) ==
    [r \in Readers |->
        IF reader[r].pc # "idle" /\ reader[r].key = k
        THEN [reader[r] EXCEPT !.overtaken = TRUE] ELSE reader[r]]

InitCache ==
    /\ now = 0
    /\ ccfg \in [memory_ttl : {1}, file_ttl : {2},
                 max_memory_items : 1..MaxMemoryItems]
    /\ memory_cache = <<>>
    /\ access_times = <<>>
    /\ files = <<>>
    /\ reader = [r \in Readers |-> IdleReader]
    /\ lastSet = [k \in Keys |-> NoSet]
    /\ RetryOff /\ BatchOff /\ JobsOff /\ IntegrationOff

TickCache ==
    /\ Tick
    /\ UNCHANGED <<integrationVars, cacheVars, retryVars, batchVars, jobVars>>

\* set, lines 262-286, with the default TTLs
Set(k, v) ==
    /\ LET m == SetInMemory(memory_cache, access_times, k, v,
                            ccfg.memory_ttl, now) IN
         /\ memory_cache' = m.mem
         /\ access_times' = m.at
    /\ files' = SetInFile(files, k, v, ccfg.file_ttl, now)
    /\ lastSet' = [lastSet EXCEPT ![k] =
                      [value |-> v, at |-> now,
                       alone |-> \A r \in Readers :
                                   reader[r].pc = "idle" \/ reader[r].key # k]]
    /\ reader' = Overtake(k)
    /\ UNCHANGED <<integrationVars, ccfg, now, retryVars, batchVars, jobVars>>

\* get, line 162: a thread calls get(k)
BeginGet(r, k) ==
    /\ reader[r].pc = "idle"
    /\ reader' = [reader EXCEPT ![r] =
                    [pc |-> "memory", key |-> k, value |-> None,
                     ret |-> None, error |-> None, began |-> now,
                     overtaken |-> FALSE]]
    /\ UNCHANGED <<ccfg, memory_cache, access_times, files, lastSet>>
    /\ UNCHANGED <<integrationVars, now, retryVars, batchVars, jobVars>>

\* get lines 173-175 and _get_from_memory, lines 195-213
GetFromMemory(r) ==
    /\ reader[r].pc = "memory"
    /\ LET k == reader[r].key IN
       IF k \in DOMAIN memory_cache
       THEN IF now > memory_cache[k].expires_at
            THEN /\ memory_cache' = MemDel(memory_cache, {k})
                 /\ access_times' = AtDel(access_times, {k})
                 /\ reader' = [reader EXCEPT ![r].pc = "file"]
            ELSE /\ access_times' = AtPut(access_times, k, now)
                 /\ memory_cache' = memory_cache
                 /\ reader' = [reader EXCEPT ![r] =
                      IF memory_cache[k].value = None
                      THEN [@ EXCEPT !.pc = "file"]
                      ELSE Return(@, memory_cache[k].value)]
       ELSE /\ reader' = [reader EXCEPT ![r].pc = "file"]
            /\ UNCHANGED <<memory_cache, access_times>>
    /\ UNCHANGED <<ccfg, files, lastSet>>
    /\ UNCHANGED <<integrationVars, now, retryVars, batchVars, jobVars>>

\* get lines 178-179 and 193, and _get_from_file, lines 215-238
GetFromFile(r) ==
    /\ reader[r].pc = "file"
    /\ LET k == reader[r].key IN
       IF k \notin DOMAIN files
       THEN /\ reader' = [reader EXCEPT ![r] = Return(@, None)]
            /\ files' = files
       ELSE LET o == ReadFile(files[k], now) IN
            /\ files' = IF o.removed THEN MemDel(files, {k}) ELSE files
            /\ reader' = [reader EXCEPT ![r] =
                  IF o.error # None THEN Raise(@, o.error)
                  ELSE IF o.ret = None THEN Return(@, None)
                  ELSE [@ EXCEPT !.pc = "promote", !.value = o.ret]]
    /\ UNCHANGED <<ccfg, memory_cache, access_times, lastSet>>
    /\ UNCHANGED <<integrationVars, now, retryVars, batchVars, jobVars>>

\* a get() that returns the file's value without storing it in memory
PromoteNoBackfill(r) ==
    /\ reader[r].pc = "promote"
    /\ reader' = [reader EXCEPT ![r] = Return(@, reader[r].value)]
    /\ UNCHANGED <<ccfg, memory_cache, access_times, files, lastSet>>
    /\ UNCHANGED <<integrationVars, now, retryVars, batchVars, jobVars>>

\* get lines 180-182: the file's value is stored in memory and returned
Promote(r) ==
    /\ reader[r].pc = "promote"
    /\ LET m == SetInMemory(memory_cache, access_times, reader[r].key,
                            reader[r].value, ccfg.memory_ttl, now) IN
         /\ memory_cache' = m.mem
         /\ access_times' = m.at
    /\ reader' = [reader EXCEPT ![r] = Return(@, reader[r].value)]
    /\ UNCHANGED <<ccfg, files, lastSet>>
    /\ UNCHANGED <<integrationVars, now, retryVars, batchVars, jobVars>>

\* invalidate, lines 338-365
Invalidate(k) ==
    /\ k \in DOMAIN memory_cache \cup DOMAIN files
    /\ memory_cache' = MemDel(memory_cache, {k})
    /\ access_times' = AtDel(access_times, {k})
    /\ files' = MemDel(files, {k})
    /\ lastSet' = [lastSet EXCEPT ![k] = NoSet]
    /\ reader' = Overtake(k)
    /\ UNCHANGED <<integrationVars, ccfg, now, retryVars, batchVars, jobVars>>

\* _cleanup_loop line 72: the sweep of the memory tier
SweepMemory ==
    /\ LET m == CleanupMemory(memory_cache, access_times, now) IN
         /\ m.mem # memory_cache
         /\ memory_cache' = m.mem
         /\ access_times' = m.at
    /\ UNCHANGED <<ccfg, files, reader, lastSet>>
    /\ UNCHANGED <<integrationVars, now, retryVars, batchVars, jobVars>>

\* _cleanup_loop line 76 and _cleanup_file_cache, lines 113-143
SweepFiles ==
    /\ \E k \in DOMAIN files : now > files[k].expires_at
    /\ files' = MemDel(files, {k \in DOMAIN files : now > files[k].expires_at})
    /\ UNCHANGED <<ccfg, memory_cache, access_times, reader, lastSet>>
    /\ UNCHANGED <<integrationVars, now, retryVars, batchVars, jobVars>>

NextCache ==
    \/ TickCache
    \/ \E k \in Keys, v \in Values : Set(k, v)
    \/ \E r \in Readers, k \in Keys : BeginGet(r, k)
    \/ \E r \in Readers : GetFromMemory(r)
    \/ \E r \in Readers : GetFromFile(r)
    \/ \E r \in Readers : Promote(r)
    \/ \E k \in Keys : Invalidate(k)
    \/ SweepMemory
    \/ SweepFiles

SpecCache == InitCache /\ [][NextCache]_vars

(***************************************************************************)
(* The memory tier under pressure: more keys than max_memory_items, so     *)
(* that writes and promotions evict.  The clock stops before any entry     *)
(* expires, so the periodic sweep has nothing to remove.                   *)
(***************************************************************************)
LruKeys == {"k1", "k2", "k3"}

InitCacheLru ==
    /\ now = 0
    /\ ccfg \in [memory_ttl : {1}, file_ttl : {2},
                 max_memory_items : 1..MaxMemoryItems]
    /\ memory_cache = <<>>
    /\ access_times = <<>>
    /\ files = <<>>
    /\ reader = [r \in Readers |-> IdleReader]
    /\ lastSet = [k \in LruKeys |-> NoSet]
    /\ RetryOff /\ BatchOff /\ JobsOff /\ IntegrationOff

\* the clock of the memory tier under pressure
TickLru ==
    /\ now < MaxLruTime
    /\ TickCache

NextCacheLru ==
    \/ TickLru
    \/ \E k \in LruKeys : Set(k, "str")
    \/ \E r \in Readers, k \in LruKeys : BeginGet(r, k)
    \/ \E r \in Readers : GetFromMemory(r)
    \/ \E r \in Readers : GetFromFile(r)
    \/ \E r \in Readers : Promote(r)

SpecCacheLru == InitCacheLru /\ [][NextCacheLru]_vars

(***************************************************************************)
(* The cache opened on a cache directory that already holds files, some of *)
(* them damaged: the reads of PersistentCache.get on what it finds there.  *)
(***************************************************************************)
\* the contents <key>.json can have when the cache is constructed
FileContents ==
    [json : {"entry", "no_created_at", "no_value"}, value : {"str", "list"},
     expires_at : 0..MaxTime]
    \cup [json : {"not_json", "no_expires_at", "not_object"},
          value : {None}, expires_at : {0}]

InitCacheFiles ==
    /\ now = 0
    /\ ccfg \in [memory_ttl : {1}, file_ttl : {2},
                 max_memory_items : 1..MaxMemoryItems]
    /\ memory_cache = <<>>
    /\ access_times = <<>>
    /\ \E S \in SUBSET Keys : files \in [S -> FileContents]
    /\ reader = [r \in Readers |-> IdleReader]
    /\ lastSet = [k \in Keys |-> NoSet]
    /\ RetryOff /\ BatchOff /\ JobsOff /\ IntegrationOff

NextCacheFiles ==
    \/ TickCache
    \/ \E r \in Readers, k \in Keys : BeginGet(r, k)
    \/ \E r \in Readers : GetFromMemory(r)
    \/ \E r \in Readers : GetFromFile(r)
    \/ \E r \in Readers : Promote(r)

SpecCacheFiles == InitCacheFiles /\ [][NextCacheFiles]_vars

(***************************************************************************)
(* api_client.py: BoxAPIClient.call_api, and integration.py: the upstream  *)
(* calls of OptimizedIntegration (extract_metadata_ai, apply_metadata,     *)
(* ...), each of which runs a BoxAPIClient method under a RetryManager     *)
(* with a CircuitBreaker.  The Box client is taken to hold an access       *)
(* token, so get_access_token does not raise.                              *)
(***************************************************************************)
\* the HTTP statuses the upstream answers with
Statuses == {"200", "401", "404", "429", "500", "501", "503"}
ServerErrors == {"500", "501", "503"}
\* a requests ConnectionError, Timeout or other RequestException
NetworkError == "network"
Responses == Statuses \cup {NetworkError}

\* call_api line 88: the default of retry_codes
DefaultRetryCodes == {"429", "500", "502", "503", "504"}

\* a thread that is not inside call_api
NoHttp ==
    [pc |-> "idle", max_retries |-> 0, retry_codes |-> DefaultRetryCodes,
     retries |-> 0, refreshes |-> 0, last |-> "none", result |-> "none"]

\* call_api lines 152-229: what one response does to the call.  The result
\* is "data" (the parsed body), "error" (the dict {"error": ...} of lines
\* 192-203) or "network_error" (line 229); call_api returns all three.
OnResponse(h, s) ==
    LET h1 == [h EXCEPT !.last = s] IN
    IF s = "200"
    THEN [h1 EXCEPT !.pc = "done", !.result = "data"]
    ELSE IF s = NetworkError
    THEN IF h.retries < h.max_retries
         THEN [h1 EXCEPT !.pc = "sleep", !.retries = @ + 1]
         ELSE [h1 EXCEPT !.pc = "done", !.result = "network_error"]
    ELSE IF s \in h.retry_codes /\ h.retries < h.max_retries
         THEN [h1 EXCEPT !.pc = "sleep", !.retries = @ + 1,
                         !.refreshes = IF s = "401" THEN @ + 1 ELSE @]
         ELSE [h1 EXCEPT !.pc = "done", !.result = "error"]

\* OptimizedIntegration.__init__ lines 38-75: every retry manager has a
\* circuit breaker and retries every exception type
InitIntegration ==
    /\ now = 1
    /\ cfg \in [failure_threshold : 1..MaxThreshold,
                recovery_timeout : {1},
                half_open_max_calls : 1..MaxHalfOpen,
                max_retries : 0..MaxRetries,
                circuit_breaker : {TRUE}]
    /\ cb = CircuitBreakerInit
    /\ rm = RetryManagerInit
    /\ call = [c \in Callers |-> NoCall]
    /\ callsLeft = MaxCalls
    /\ streak = 0
    /\ http = [c \in Callers |-> NoHttp]
    /\ wrapper = <<>> /\ md = <<>>
    /\ BatchOff /\ JobsOff /\ CacheOff

\* integration.py lines 221-244 (and the like): a thread calls an upstream
\* method; RetryManager.execute lines 304-313.  With bad arguments the
\* BoxAPIClient method raises ValueError at every invocation
\* (api_client.py, extract_metadata_ai), otherwise it runs call_api.
BeginUpstreamCall(c) ==
    /\ call[c].pc = "idle"
    /\ callsLeft > 0
    /\ \E bad \in BOOLEAN :
         call' = [call EXCEPT ![c] =
                    [NoCall EXCEPT !.pc = "attempt",
                        !.k = IF bad THEN MaxRetries + 1 ELSE 0,
                        !.failsLeft = IF bad THEN MaxRetries + 1 ELSE 0]]
    /\ \E m \in 0..MaxApiRetries,
          rc \in {DefaultRetryCodes, DefaultRetryCodes \cup {"401"}} :
         http' = [http EXCEPT ![c] =
                    [NoHttp EXCEPT !.max_retries = m, !.retry_codes = rc]]
    /\ rm' = [rm EXCEPT !.total_calls = @ + 1]
    /\ callsLeft' = callsLeft - 1
    /\ UNCHANGED <<now, cfg, cb, streak, wrapper, md>>
    /\ UNCHANGED <<batchVars, jobVars, cacheVars>>

\* the BoxAPIClient method raises ValueError inside CircuitBreaker.execute
ArgumentError(c) ==
    /\ call[c].failsLeft > 0
    /\ FuncRaises(c)

\* call_api lines 109-151: the request is sent
SendRequest(c) ==
    /\ call[c].pc = "calling"
    /\ call[c].failsLeft = 0
    /\ http[c].pc = "idle"
    /\ http' = [http EXCEPT ![c].pc = "request"]
    /\ UNCHANGED <<now, retryVars, wrapper, md>>
    /\ UNCHANGED <<batchVars, jobVars, cacheVars>>

\* call_api lines 152-229: the upstream answers with status s, or the
\* request fails with a network error
Respond(c, s) ==
    /\ http[c].pc = "request"
    /\ http' = [http EXCEPT ![c] = OnResponse(@, s)]
    /\ UNCHANGED <<now, retryVars, wrapper, md>>
    /\ UNCHANGED <<batchVars, jobVars, cacheVars>>

\* call_api lines 187-188 and 225-226: the backoff sleep ends
BackoffEnds(c) ==
    /\ http[c].pc = "sleep"
    /\ http' = [http EXCEPT ![c].pc = "request"]
    /\ UNCHANGED <<now, retryVars, wrapper, md>>
    /\ UNCHANGED <<batchVars, jobVars, cacheVars>>

\* call_api returns its result to CircuitBreaker.execute, which records a
\* success (retry.py lines 116-136), and RetryManager.execute returns it
ApiReturns(c) ==
    /\ http[c].pc = "done"
    /\ FuncReturns(c)

TickIntegration ==
    /\ Tick
    /\ UNCHANGED <<integrationVars, retryVars, batchVars, jobVars, cacheVars>>

NextIntegration ==
    \/ TickIntegration
    \/ \E c \in Callers : BeginUpstreamCall(c)
    \/ \E c \in Callers : AttemptAdmitted(c)
    \/ \E c \in Callers : AttemptRejected(c)
    \/ \E c \in Callers : ArgumentError(c)
    \/ \E c \in Callers : WakeUp(c)
    \/ \E c \in Callers : SendRequest(c)
    \/ \E c \in Callers, s \in Responses : Respond(c, s)
    \/ \E c \in Callers : BackoffEnds(c)
    \/ \E c \in Callers : ApiReturns(c)

SpecIntegration == InitIntegration /\ [][NextIntegration]_vars

(***************************************************************************)
(* cache.py: the wrapper that cache_api_call puts around a function, and   *)
(* integration.py: the cached reads of OptimizedIntegration.  One thread   *)
(* calls the wrapper; cache.get runs as the get() of reader "r1".          *)
(***************************************************************************)
\* the cache argument of cache_api_call: integration.py lines 131, 152, 181
\* and 200 pass None, a decorator given a cache passes the PersistentCache
IntegrationBinding == None
CacheBindings == {IntegrationBinding, "PersistentCache"}

\* a thread that is not inside the wrapper; calls counts the invocations of
\* the wrapped function by the call in progress (or the last one)
NoWrapper ==
    [pc |-> "idle", cache |-> IntegrationBinding, key |-> "k1",
     force_refresh |-> FALSE, hit |-> FALSE, result |-> None, calls |-> 0,
     stored |-> FALSE, ret |-> None, error |-> None]

\* the wrapper ends: it returns v, or exception e leaves it
WrapperEnds(w, v, e) == [w EXCEPT !.pc = "ended", !.ret = v, !.error = e]

InitCachedRead ==
    /\ now = 0
    /\ ccfg \in [memory_ttl : {1}, file_ttl : {2},
                 max_memory_items : 1..MaxMemoryItems]
    /\ memory_cache = <<>>
    /\ access_times = <<>>
    /\ files = <<>>
    /\ reader = [r \in Readers |-> IdleReader]
    /\ lastSet = [k \in Keys |-> NoSet]
    /\ wrapper \in {[NoWrapper EXCEPT !.cache = b] : b \in CacheBindings}
    /\ http = <<>> /\ md = <<>>
    /\ RetryOff /\ BatchOff /\ JobsOff

\* wrapper, lines 409-411: a thread calls the decorated method
BeginCachedRead(k, fr) ==
    /\ wrapper.pc \in {"idle", "ended"}
    /\ wrapper' = [NoWrapper EXCEPT !.pc = "key", !.cache = wrapper.cache,
                                    !.key = k, !.force_refresh = fr]
    /\ UNCHANGED <<now, http, md, cacheVars, retryVars, batchVars, jobVars>>

\* wrapper, line 414: cache.generate_key is an attribute lookup on the
\* cache argument, which raises AttributeError on None
GenerateKey ==
    /\ wrapper.pc = "key"
    /\ wrapper' =
         IF wrapper.cache = None
         THEN WrapperEnds(wrapper, None, "AttributeError")
         ELSE [wrapper EXCEPT !.pc = IF wrapper.force_refresh
                                     THEN "invalidate" ELSE "lookup"]
    /\ UNCHANGED <<now, http, md, cacheVars, retryVars, batchVars, jobVars>>

\* wrapper, lines 417-418, and invalidate, lines 338-365
InvalidateCached ==
    /\ wrapper.pc = "invalidate"
    /\ memory_cache' = MemDel(memory_cache, {wrapper.key})
    /\ access_times' = AtDel(access_times, {wrapper.key})
    /\ files' = MemDel(files, {wrapper.key})
    /\ lastSet' = [lastSet EXCEPT ![wrapper.key] = NoSet]
    /\ reader' = Overtake(wrapper.key)
    /\ wrapper' = [wrapper EXCEPT !.pc = "func"]
    /\ UNCHANGED <<now, ccfg, http, md, retryVars, batchVars, jobVars>>

\* wrapper, line 421: cache.get(key) is called (get, line 162)
CachedLookup ==
    /\ wrapper.pc = "lookup"
    /\ reader["r1"].pc = "idle"
    /\ reader' = [reader EXCEPT !["r1"] =
                    [pc |-> "memory", key |-> wrapper.key, value |-> None,
                     ret |-> None, error |-> None, began |-> now,
                     overtaken |-> FALSE]]
    /\ wrapper' = [wrapper EXCEPT !.pc = "getting"]
    /\ UNCHANGED <<ccfg, memory_cache, access_times, files, lastSet>>
    /\ UNCHANGED <<now, http, md, retryVars, batchVars, jobVars>>

\* wrapper, lines 421-423: cache.get has returned; a value that is not None
\* is returned to the caller
LookupReturns ==
    /\ wrapper.pc = "getting"
    /\ reader["r1"].pc = "idle"
    /\ wrapper' =
         IF reader["r1"].error # None
         THEN WrapperEnds(wrapper, None, reader["r1"].error)
         ELSE IF reader["r1"].ret # None
         THEN WrapperEnds([wrapper EXCEPT !.hit = TRUE], reader["r1"].ret,
                          None)
         ELSE [wrapper EXCEPT !.pc = "func"]
    /\ UNCHANGED <<now, http, md, cacheVars, retryVars, batchVars, jobVars>>

\* wrapper, line 426: the decorated function (the retry-wrapped API call)
\* returns v
CallFunc(v) ==
    /\ wrapper.pc = "func"
    /\ wrapper' = [wrapper EXCEPT !.pc = "store", !.result = v,
                                  !.calls = @ + 1]
    /\ UNCHANGED <<now, http, md, cacheVars, retryVars, batchVars, jobVars>>

\* wrapper, line 426: the decorated function raises, and so does the wrapper
CallFuncRaises ==
    /\ wrapper.pc = "func"
    /\ wrapper' = WrapperEnds([wrapper EXCEPT !.calls = @ + 1], None,
                              "Exception")
    /\ UNCHANGED <<now, http, md, cacheVars, retryVars, batchVars, jobVars>>

\* wrapper, lines 429-431: cache.set(key, result, file_ttl=None) (set, lines
\* 262-286), then the result is returned
StoreResult ==
    /\ wrapper.pc = "store"
    /\ LET m == SetInMemory(memory_cache, access_times, wrapper.key,
                            wrapper.result, ccfg.memory_ttl, now) IN
         /\ memory_cache' = m.mem
         /\ access_times' = m.at
    /\ files' = SetInFile(files, wrapper.key, wrapper.result, ccfg.file_ttl,
                          now)
    /\ lastSet' = [lastSet EXCEPT ![wrapper.key] =
                      [value |-> wrapper.result, at |-> now, alone |-> TRUE]]
    /\ reader' = Overtake(wrapper.key)
    /\ wrapper' = WrapperEnds([wrapper EXCEPT !.stored = TRUE],
                              wrapper.result, None)
    /\ UNCHANGED <<now, ccfg, http, md, retryVars, batchVars, jobVars>>

NextCachedRead ==
    \/ TickCache
    \/ \E k \in Keys, fr \in BOOLEAN : BeginCachedRead(k, fr)
    \/ GenerateKey
    \/ InvalidateCached
    \/ CachedLookup
    \/ GetFromMemory("r1")
    \/ GetFromFile("r1")
    \/ Promote("r1")
    \/ LookupReturns
    \/ \E v \in Values : CallFunc(v)
    \/ CallFuncRaises
    \/ StoreResult

SpecCachedRead == InitCachedRead /\ [][NextCachedRead]_vars

(***************************************************************************)
(* direct_metadata_application_enhanced_fixed.py: fix_metadata_format and  *)
(* flatten_metadata_for_template, applied in this order to the response of *)
(* the AI extraction (lines 402-406).  A string is the sequence of its     *)
(* characters; the literals 1, None, True, null and true count as one      *)
(* character each.  The text of a map is kept field by field: its field    *)
(* names are identifiers, so that quoting matters in the values only.      *)
(***************************************************************************)
\* longest string value of an answer field
MaxStrLen == 2

Apostrophe == "'"
DoubleQuote == "\""
Backslash == "\\"
Chars == {"a", Apostrophe, DoubleQuote}

RECURSIVE StringsUpTo(_)
StringsUpTo(n) ==
    IF n = 0 THEN {<<>>}
    ELSE LET shorter == StringsUpTo(n - 1) IN
         shorter \cup {Append(s, c) : s \in shorter, c \in Chars}

\* Python values: strings, the int 1, None, True, and dicts
PyStr(s) == [t |-> "str", s |-> s, d |-> <<>>]
PyInt == [t |-> "int", s |-> <<>>, d |-> <<>>]
PyNone == [t |-> "none", s |-> <<>>, d |-> <<>>]
PyTrue == [t |-> "bool", s |-> <<>>, d |-> <<>>]
PyDict(d) == [t |-> "dict", s |-> <<>>, d |-> d]
\* a string that starts with '{' and ends with '}': the text of a map, d
\* giving the text of each field's value
MapText(d) == [t |-> "maptext", s |-> <<>>, d |-> d]

\* the values a field of the answer can have
FieldValues ==
    {PyStr(s) : s \in StringsUpTo(MaxStrLen)} \cup {PyInt, PyNone, PyTrue}
FieldNames == {"title", "value"}
\* the keys of the AI response next to 'answer'
ResponseKeys == {"ai_agent_info", "created_at", "completion_reason"}

RECURSIVE Escape(_, _)
\* s with a backslash put before every character of the set esc
Escape(s, esc) ==
    IF s = <<>> THEN <<>>
    ELSE (IF Head(s) \in esc THEN <<Backslash, Head(s)>> ELSE <<Head(s)>>)
         \o Escape(Tail(s), esc)

Has(s, c) == \E i \in 1..Len(s) : s[i] = c

\* repr(v), as str(dict) writes each value: a string is put between
\* apostrophes, or between double quotes when it holds an apostrophe and no
\* double quote
Repr(v) ==
    CASE v.t = "int" -> <<"1">>
      [] v.t = "none" -> <<"None">>
      [] v.t = "bool" -> <<"True">>
      [] OTHER ->
           IF Has(v.s, Apostrophe) /\ ~Has(v.s, DoubleQuote)
           THEN <<DoubleQuote>> \o v.s \o <<DoubleQuote>>
           ELSE <<Apostrophe>> \o Escape(v.s, {Apostrophe})
                \o <<Apostrophe>>

\* json.dumps(v)
JsonDumps(v) ==
    CASE v.t = "int" -> <<"1">>
      [] v.t = "none" -> <<"null">>
      [] v.t = "bool" -> <<"true">>
      [] OTHER -> <<DoubleQuote>> \o Escape(v.s, {DoubleQuote})
                  \o <<DoubleQuote>>

\* fix_metadata_format line 30: value.replace("'", '"')
ReplaceQuotes(s) ==
    [i \in 1..Len(s) |-> IF s[i] = Apostrophe THEN DoubleQuote ELSE s[i]]

ParseError == [t |-> "JSONDecodeError", s |-> <<>>, d |-> <<>>]

RECURSIVE ScanString(_, _, _)
\* the JSON decoder inside a string literal, at position i, acc being the
\* characters decoded so far: the literal ends at the first double quote
\* that is not escaped, and nothing may follow it
ScanString(s, i, acc) ==
    IF i > Len(s) THEN ParseError
    ELSE IF s[i] = DoubleQuote
    THEN IF i = Len(s) THEN PyStr(acc) ELSE ParseError
    ELSE IF s[i] = Backslash
    THEN IF i + 1 <= Len(s) /\ s[i + 1] \in {DoubleQuote, Backslash}
         THEN ScanString(s, i + 2, Append(acc, s[i + 1]))
         ELSE ParseError
    ELSE ScanString(s, i + 1, Append(acc, s[i]))

\* json.loads on the text of one value
JsonLoadsValue(s) ==
    IF s = <<"1">> THEN PyInt
    ELSE IF s = <<"null">> THEN PyNone
    ELSE IF s = <<"true">> THEN PyTrue
    ELSE IF s # <<>> /\ s[1] = DoubleQuote THEN ScanString(s, 2, <<>>)
    ELSE ParseError

\* fix_metadata_format lines 27-38 on one value of the map
FixValue(v) ==
    IF v.t = "maptext"
    THEN LET parsed == [f \in DOMAIN v.d |->
                           JsonLoadsValue(ReplaceQuotes(v.d[f]))] IN
         IF \E f \in DOMAIN v.d : parsed[f] = ParseError
         THEN v
         ELSE PyDict(parsed)
    ELSE v

\* fix_metadata_format, lines 11-41
fix_metadata_format(m) == [k \in DOMAIN m |-> FixValue(m[k])]

keys_to_remove == {"ai_agent_info", "created_at", "completion_reason",
                   "answer"}

\* flatten_metadata_for_template, lines 43-71
flatten_metadata_for_template(m) ==
    LET flattened ==
          IF "answer" \in DOMAIN m /\ m["answer"].t = "dict"
          THEN m["answer"].d
          ELSE m
    IN  [k \in DOMAIN flattened \ keys_to_remove |-> flattened[k]]

\* the AI responses whose 'answer' is the string form, written by str() or
\* by json.dumps, of the flat field map a
ResponsesOf(a) ==
    {[k \in ks \cup {"answer"} |->
        IF k = "answer"
        THEN MapText([f \in DOMAIN a |-> form[a[f]]])
        ELSE IF k = "ai_agent_info"
        THEN MapText([f \in {"processor"} |-> Repr(PyStr(<<"a">>))])
        ELSE PyStr(<<"a">>)] :
      ks \in SUBSET ResponseKeys,
      form \in {[v \in FieldValues |-> Repr(v)],
                [v \in FieldValues |-> JsonDumps(v)]}}

InitMetadata ==
    /\ now = 0
    /\ \E S \in SUBSET FieldNames : \E a \in [S -> FieldValues] :
         \E m \in ResponsesOf(a) :
           md = [pc |-> "response", answer |-> a, m |-> m]
    /\ http = <<>> /\ wrapper = <<>>
    /\ RetryOff /\ BatchOff /\ JobsOff /\ CacheOff

\* apply_metadata_to_file_direct, line 402
FixMetadataFormat ==
    /\ md.pc = "response"
    /\ md' = [md EXCEPT !.pc = "formatted", !.m = fix_metadata_format(@)]
    /\ UNCHANGED <<now, http, wrapper>>
    /\ UNCHANGED <<retryVars, batchVars, jobVars, cacheVars>>

\* apply_metadata_to_file_direct, line 406
FlattenMetadata ==
    /\ md.pc = "formatted"
    /\ md' = [md EXCEPT !.pc = "flattened",
                        !.m = flatten_metadata_for_template(@)]
    /\ UNCHANGED <<now, http, wrapper>>
    /\ UNCHANGED <<retryVars, batchVars, jobVars, cacheVars>>

NextMetadata ==
    \/ FixMetadataFormat
    \/ FlattenMetadata

SpecMetadata == InitMetadata /\ [][NextMetadata]_vars

(***************************************************************************)
(* Properties of the circuit breaker and the retry manager                 *)
(***************************************************************************)
\* a RetryManager.execute call of thread c that has ended
Ended(c) == call[c].pc = "idle" /\ call[c].outcome # "none"

\* C1: once failure_threshold consecutive failures have been recorded in the
\* closed state, every execute call that arrives while recovery_timeout has
\* not elapsed since the last failure is rejected with CircuitBreakerError,
\* is counted as rejected and does not invoke the wrapped function.
C1_TrippedBreakerRejects ==
    [][\A c \in Callers :
         (/\ cfg.circuit_breaker
          /\ call[c].pc = "attempt"
          /\ call'[c] # call[c]
          /\ streak >= cfg.failure_threshold
          /\ now - cb.last_failure_time <= cfg.recovery_timeout)
         => (/\ call'[c].pc = "idle"
             /\ call'[c].outcome = "CircuitBreakerError"
             /\ call'[c].invocations = call[c].invocations
             /\ cb'.rejected_calls = cb.rejected_calls + 1
             /\ cb'.state = OPEN)]_vars

\* C1 witness: with failure_threshold = 2, two consecutive failures were
\* recorded and a later call has been rejected while the breaker is open
C1_Witness ==
    /\ cfg.circuit_breaker
    /\ cfg.failure_threshold = 2
    /\ streak >= 2
    /\ cb.state = OPEN
    /\ cb.failed_calls = 2
    /\ cb.rejected_calls >= 1
    /\ now - cb.last_failure_time <= cfg.recovery_timeout
    /\ \E c \in Callers : Ended(c) /\ call[c].outcome = "CircuitBreakerError"

\* C2 as claimed: for every configuration, a call whose function fails its
\* first k invocations with a retryable error invokes it 1 + min(k,
\* max_retries) times, and raises the function's own error when
\* k > max_retries.
C2_InvocationCountAsClaimed ==
    \A c \in Callers :
        (Ended(c) /\ call[c].retryable)
        => /\ call[c].invocations = 1 + Min(call[c].k, cfg.max_retries)
           /\ call[c].k > cfg.max_retries => call[c].outcome = "FuncError"

\* C2 amended: the count and the raised error are as claimed for every call
\* none of whose attempts the breaker rejects; a call with a rejected attempt
\* raises CircuitBreakerError after at most min(k, max_retries) invocations.
C2_InvocationCount ==
    \A c \in Callers :
        (Ended(c) /\ call[c].retryable)
        => IF call[c].outcome = "CircuitBreakerError"
           THEN /\ cfg.circuit_breaker
                /\ call[c].invocations <= Min(call[c].k, cfg.max_retries)
           ELSE /\ call[c].invocations = 1 + Min(call[c].k, cfg.max_retries)
                /\ call[c].k > cfg.max_retries
                     => call[c].outcome = "FuncError"
                /\ call[c].k <= cfg.max_retries => call[c].outcome = "ok"

\* C2 witness: behind a breaker, a function that fails more often than
\* max_retries was retried to exhaustion and raised its own error
C2_Witness ==
    \E c \in Callers :
        /\ Ended(c) /\ call[c].retryable
        /\ cfg.circuit_breaker /\ cfg.max_retries = 1
        /\ call[c].k > cfg.max_retries
        /\ call[c].invocations = 2
        /\ call[c].outcome = "FuncError"

(***************************************************************************)
(* Properties of the batch processor                                       *)
(***************************************************************************)
\* the outcomes process_batch has returned
Returned == bpc = "returned"

\* C3 as claimed: process_batch returns exactly len(items) outcomes and the
\* i-th outcome carries the i-th input item, whatever the completion order
\* of the workers.
C3_OutcomesInInputOrder ==
    Returned
    => /\ Len(results) = bat.n
       /\ \A i \in 1..Len(results) : results[i].item = i

\* C4 as claimed: every outcome has exactly one of result and error
\* populated, whatever the work function returns or raises.
C4_ExactlyOneAsClaimed ==
    \A i \in 1..Len(results) :
        (results[i].result # None) # (results[i].error # None)

\* C4 amended: no outcome has both result and error populated; error is
\* populated exactly when the work function raised, result exactly when it
\* returned a value other than None (so neither is populated exactly when
\* it returned None).
C4_ResultXorErrorUnlessNone ==
    \A i \in 1..Len(results) :
        LET o == results[i] IN
        /\ ~(o.result # None /\ o.error # None)
        /\ (o.error # None) <=> (behav[o.item] = "raise")
        /\ (o.result # None) <=> (behav[o.item] = "value")

\* C4 witness: a returned batch with a successful and a failed outcome
C4_Witness ==
    /\ Returned
    /\ \E i, j \in 1..Len(results) :
         /\ results[i].result # None /\ results[i].error = None
         /\ results[j].result = None /\ results[j].error # None

\* C7: an exception of the work function never makes process_batch raise
\* (only an expired timeout does), and when process_batch returns, every
\* item has exactly one outcome: an error for each item whose call raised,
\* no error for every other item, in the same chunk and in later chunks.
C7_FailureIsolated ==
    /\ bpc \in {"unwinding", "raised"} => bat.timeout /\ pendingF # {}
    /\ Returned =>
         \A j \in Items :
            /\ Cardinality({i \in 1..Len(results) : results[i].item = j}) = 1
            /\ \A i \in 1..Len(results) :
                 results[i].item = j =>
                    /\ (behav[j] = "raise") <=> (results[i].error # None)
                    /\ (behav[j] = "value") => (results[i].result = "result")

\* C7 witness: three items in chunks of two, the call for item 2 raises and
\* the calls for items 1 and 3 return values; all three are reported
C7_Witness ==
    /\ Returned
    /\ bat.n = 3 /\ bat.batch_size = 2
    /\ behav[1] = "value" /\ behav[2] = "raise" /\ behav[3] = "value"
    /\ Len(results) = 3
    /\ \E i \in 1..3 : results[i].item = 2 /\ results[i].error # None
    /\ \E i \in 1..3 : results[i].item = 1 /\ results[i].result # None
    /\ \E i \in 1..3 : results[i].item = 3 /\ results[i].result # None

(***************************************************************************)
(* Properties of the background job manager                                *)
(***************************************************************************)
\* the job that worker w is executing
Executing(w, j) == worker[w].pc = "exec" /\ worker[w].job = j

\* worker w leaves _process_job in this step
Leaves(w) == worker[w].pc = "exec" /\ worker'[w].pc # "exec"

\* C5 as claimed: every status change of a job is pending -> running or
\* running -> completed, failed or cancelled.
C5_LifecycleAsClaimed ==
    [][\A j \in DOMAIN jobs \cap DOMAIN jobs' :
         jobs'[j].status # jobs[j].status
         => \/ jobs[j].status = "pending" /\ jobs'[j].status = "running"
            \/ jobs[j].status = "running" /\ jobs'[j].status \in Terminal]_vars

\* C5 amended: a job enters the table as pending, and every status change is
\* pending -> running, running -> completed, failed or cancelled, or
\* pending -> cancelled (cancel_job on a job that no worker has claimed);
\* a terminal status never changes and no status moves backwards.
C5_Lifecycle ==
    [][/\ \A j \in DOMAIN jobs' \ DOMAIN jobs : jobs'[j].status = "pending"
       /\ \A j \in DOMAIN jobs \cap DOMAIN jobs' :
            jobs'[j].status # jobs[j].status
            => \/ jobs[j].status = "pending" /\ jobs'[j].status = "running"
               \/ jobs[j].status = "running" /\ jobs'[j].status \in Terminal
               \/ /\ jobs[j].status = "pending"
                  /\ jobs'[j].status = "cancelled"
                  /\ lastCall'.op = "cancel_job"]_vars

\* C5 witness: a job was claimed and then cancelled while running
C5_Witness ==
    \E j \in DOMAIN jobs, w \in Workers :
        /\ jobs[j].status = "cancelled"
        /\ jobs[j].started_at # NoTime
        /\ Executing(w, j)

\* C6: when the callable of a job that is not cancelled raises, the job
\* becomes failed with error = the exception's message and result still
\* None, and the worker is back in its loop, ready for the next job.
C6_RaiseMakesFailed ==
    [][\A w \in Workers :
         (/\ Leaves(w)
          /\ worker'[w].outcome = "raised"
          /\ worker[w].job \in DOMAIN jobs
          /\ jobs[worker[w].job].status # "cancelled")
         => LET j == worker[w].job IN
            /\ jobs[j].status = "running"
            /\ j \in DOMAIN jobs'
            /\ jobs'[j].status = "failed"
            /\ jobs'[j].error = worker'[w].value
            /\ jobs'[j].error # None
            /\ jobs'[j].result = None
            /\ jobs'[j].completed_at = now
            /\ worker'[w].pc = "scan"]_vars

\* C6 witness: a job failed with the message "boom" and no result
C6_Witness ==
    \E j \in DOMAIN jobs, w \in Workers :
        /\ jobs[j].status = "failed"
        /\ jobs[j].error = "boom"
        /\ jobs[j].result = None
        /\ worker[w] = [pc |-> "scan", job |-> j, outcome |-> "raised",
                        value |-> "boom"]

\* C9: update_progress on a job that is not running (or on an unknown id)
\* returns False and changes no job record; on a running job it returns
\* True, stores the progress clamped into [0, 1] and changes nothing else
\* but the message.
C9_UpdateProgress ==
    [][\A j \in 1..MaxJobs :
         /\ (lastCall'.op = "update_progress" /\ lastCall'.job = j)
            => IF j \in DOMAIN jobs /\ jobs[j].status = "running"
               THEN /\ lastCall'.ret = TRUE
                    /\ jobs'[j].progress \in 0..ProgressFull
                    /\ \E m \in MessageArgs :
                         jobs' = [jobs EXCEPT
                                    ![j].progress = jobs'[j].progress,
                                    ![j].progress_message =
                                        IF m = None THEN @ ELSE m]
               ELSE /\ lastCall'.ret = FALSE
                    /\ jobs' = jobs
         /\ \A p \in ProgressArgs, m \in MessageArgs :
              (/\ lastCall'.op = "update_progress" /\ lastCall'.job = j
               /\ j \in DOMAIN jobs /\ jobs[j].status = "running"
               /\ UpdateProgress(j, p, m))
              => jobs'[j].progress =
                    (IF p < 0 THEN 0
                     ELSE IF p > ProgressFull THEN ProgressFull ELSE p)]_vars

\* C9 witness: a progress above 1.0 was stored as 1.0 on a running job
C9_Witness ==
    \E j \in DOMAIN jobs :
        /\ lastCall = [op |-> "update_progress", job |-> j, ret |-> TRUE]
        /\ jobs[j].status = "running"
        /\ jobs[j].progress = ProgressFull
        /\ jobs[j].progress_message = "msg"

\* C10: when the callable of a job that was cancelled while running returns
\* or raises, the worker leaves the job record as it is: status cancelled,
\* result, error and completed_at not overwritten.
C10_CancelledStaysCancelled ==
    [][\A w \in Workers :
         (/\ Leaves(w)
          /\ worker[w].job \in DOMAIN jobs
          /\ jobs[worker[w].job].status = "cancelled")
         => /\ jobs' = jobs
            /\ jobs'[worker[w].job].result = None
            /\ jobs'[worker[w].job].error = None]_vars

\* C10 witness: the callable returned after the job had been cancelled at an
\* earlier time
C10_Witness ==
    \E j \in DOMAIN jobs, w \in Workers :
        /\ worker[w].pc = "scan" /\ worker[w].job = j
        /\ worker[w].outcome = "returned"
        /\ jobs[j].status = "cancelled"
        /\ jobs[j].started_at # NoTime
        /\ jobs[j].completed_at < now
        /\ jobs[j].result = None

(***************************************************************************)
(* Properties of the cache                                                 *)
(***************************************************************************)
\* reader r returns from a get() that began after the last set() of its
\* key, no get() of the key having been in progress during that set()
Answers(r) ==
    /\ reader[r].pc # "idle" /\ reader'[r].pc = "idle"
    /\ ~reader[r].overtaken
    /\ lastSet[reader[r].key] # NoSet
    /\ lastSet[reader[r].key].alone

\* C8 as claimed, read for calls that do not overlap and for values as JSON
\* stores them: after set(k, v), get(k) returns v until a tier TTL elapses,
\* and returns None once the TTLs of both tiers have elapsed since the set.
C8_RoundTripUntilTtl ==
    [][\A r \in Readers :
         Answers(r)
         => LET s == lastSet[reader[r].key] IN
            /\ now <= s.at + Min(ccfg.memory_ttl, ccfg.file_ttl)
                 => reader'[r].ret \in {s.value, JsonRoundTrip(s.value)}
            /\ reader[r].began > s.at + Max(ccfg.memory_ttl, ccfg.file_ttl)
                 => reader'[r].ret = None]_vars

(***************************************************************************)
(* Further properties of the retry manager and the circuit breaker         *)
(***************************************************************************)
\* C11: when the integrated breaker rejects an attempt, execute ends at that
\* step with CircuitBreakerError: the wrapped function is not invoked for
\* the attempt, there is no backoff sleep, no retry is counted and no
\* further attempt follows, whatever is left of the retry budget.
C11_RejectionNotRetried ==
    [][\A c \in Callers :
         (/\ call[c].pc = "attempt"
          /\ cfg.circuit_breaker
          /\ Rejects(cb, now)
          /\ call'[c] # call[c])
         => /\ call'[c].pc = "idle"
            /\ call'[c].outcome = "CircuitBreakerError"
            /\ call'[c].invocations = call[c].invocations
            /\ call'[c].retries = call[c].retries
            /\ rm'.total_retries = rm.total_retries
            /\ cb'.rejected_calls = cb.rejected_calls + 1]_vars

\* C11 witness: a call was rejected at its second attempt, after one failed
\* invocation, with a retry still in its budget
C11_Witness ==
    \E c \in Callers :
        /\ call[c].pc = "idle"
        /\ call[c].outcome = "CircuitBreakerError"
        /\ call[c].invocations = 1
        /\ call[c].retries = 1
        /\ cfg.max_retries = 1
        /\ call[c].k > 1

(***************************************************************************)
(* Further properties of the batch processor                               *)
(***************************************************************************)
\* C12 as claimed: a timeout that expires while items of a chunk are not
\* completed does not make process_batch raise; process_batch returns, and
\* the returned list has an outcome for every input item.
C12_TimeoutReported ==
    /\ bpc # "raised"
    /\ Returned =>
         \A j \in Items : \E i \in 1..Len(results) : results[i].item = j

(***************************************************************************)
(* Further properties of the cache                                         *)
(***************************************************************************)
\* C13: a get(k) that misses the memory tier and finds an unexpired file
\* entry takes the file's value, stores it in the memory tier as an entry
\* that expires memory_ttl later, and returns it; and a get(k) that finds an
\* unexpired memory entry returns that entry without reading the file tier.
C13_FileHitBackfillsMemory ==
    [][\A r \in Readers :
         LET k == reader[r].key IN
         /\ (/\ reader[r].pc = "file" /\ reader'[r].pc # "file"
             /\ k \in DOMAIN files /\ now <= files[k].expires_at)
            => /\ reader'[r].pc = "promote"
               /\ reader'[r].value = files[k].value
               /\ files' = files
         /\ (reader[r].pc = "promote" /\ reader'[r].pc # "promote")
            => /\ reader'[r].pc = "idle"
               /\ reader'[r].ret = reader[r].value
               /\ reader'[r].ret # None
               /\ k \in DOMAIN memory_cache'
               /\ memory_cache'[k] =
                    [value |-> reader[r].value,
                     expires_at |-> now + ccfg.memory_ttl]
               /\ k \in AtKeys(access_times')
         /\ (/\ reader[r].pc = "memory" /\ reader'[r].pc # "memory"
             /\ k \in DOMAIN memory_cache
             /\ now <= memory_cache[k].expires_at)
            => /\ reader'[r].pc = "idle"
               /\ reader'[r].ret = memory_cache[k].value
               /\ files' = files]_vars

\* C13 witness: "str" was set with memory_ttl 1 and file_ttl 2, and a get
\* made 2 ticks later, after the memory entry had expired, returned "str"
\* and left it in the memory tier with a new expiry time
C13_Witness ==
    \E r \in Readers :
        LET k == reader[r].key IN
        /\ reader[r].pc = "idle"
        /\ reader[r].ret = "str"
        /\ lastSet[k].value = "str"
        /\ lastSet[k].alone
        /\ k \in DOMAIN memory_cache
        /\ memory_cache[k].value = "str"
        /\ memory_cache[k].expires_at =
              lastSet[k].at + ccfg.memory_ttl + 1 + ccfg.memory_ttl

\* C14 as claimed: a get(k) that finds a file for k that is corrupt,
\* unparsable or not of the shape {value, created_at, expires_at} returns
\* None, raises nothing to its caller, and deletes the file.  (A file that
\* lacks only created_at, a key no read looks at, is not held against the
\* claim.)
C14_CorruptFileIsMiss ==
    [][\A r \in Readers :
         LET k == reader[r].key IN
         (/\ reader[r].pc = "file" /\ reader'[r].pc # "file"
          /\ k \in DOMAIN files
          /\ files[k].json \notin {"entry", "no_created_at"})
         => /\ reader'[r].pc = "idle"
            /\ reader'[r].ret = None
            /\ reader'[r].error = None
            /\ k \notin DOMAIN files']_vars

(***************************************************************************)
(* Properties of the API client and the integration layer                  *)
(***************************************************************************)
\* the call_api of thread c ended in a transient upstream failure
TransientFailure(c) ==
    /\ http[c].pc = "done"
    /\ http[c].result \in {"error", "network_error"}
    /\ http[c].last \in {"429"} \cup ServerErrors \cup {NetworkError}

\* C15 as claimed: when an upstream call made through OptimizedIntegration
\* ends in a transient upstream failure (HTTP 429/5xx or a network error),
\* the CircuitBreaker counts a failure and the RetryManager counts a retry.
C15_TransientFailureCounted ==
    [][\A c \in Callers :
         (/\ call[c].pc = "calling" /\ call'[c].pc # "calling"
          /\ TransientFailure(c))
         => /\ cb'.failed_calls = cb.failed_calls + 1
            /\ cb'.failure_count = cb.failure_count + 1
            /\ rm'.total_retries = rm.total_retries + 1]_vars

\* C16 as claimed: call_api retries a 429 or 5xx response while retries
\* are left, answers a 401 response by refreshing the access token and
\* retrying, and returns every other 4xx response without a retry.
C16_StatusClassification ==
    [][\A c \in Callers :
         (http[c].pc = "request" /\ http'[c].pc # "request")
         => LET s == http'[c].last
                left == http[c].retries < http[c].max_retries
                retried == /\ http'[c].pc = "sleep"
                           /\ http'[c].retries = http[c].retries + 1
            IN  /\ (s \in {"429"} \cup ServerErrors /\ left) => retried
                /\ (s = "401" /\ left)
                     => retried /\ http'[c].refreshes = http[c].refreshes + 1
                /\ s = "404"
                     => /\ http'[c].pc = "done"
                        /\ http'[c].result = "error"
                        /\ http'[c].retries = http[c].retries]_vars

(***************************************************************************)
(* Properties of the cached reads of the integration layer                 *)
(***************************************************************************)
\* C17: a cached read through the integration layer (the wrapper bound as
\* integration.py binds it) that has ended has returned a value: on a hit
\* the cached value without invoking the API call, on a miss the result of
\* exactly one invocation of the API call, stored in the cache before
\* being returned.
C17_CachedRead ==
    (wrapper # <<>> /\ wrapper.cache = IntegrationBinding
        /\ wrapper.pc = "ended" /\ ~wrapper.force_refresh) =>
       /\ wrapper.error \in {None, "Exception"}
       /\ wrapper.error = None =>
            \/ wrapper.hit /\ wrapper.calls = 0 /\ wrapper.ret # None
            \/ /\ ~wrapper.hit /\ wrapper.calls = 1 /\ wrapper.stored
               /\ wrapper.ret = wrapper.result

(***************************************************************************)
(* Properties of the metadata format fixers                                *)
(***************************************************************************)
\* C18: for an AI response whose 'answer' is the string form of a flat
\* field map, flatten_metadata_for_template(fix_metadata_format(m)) has
\* none of the keys answer, ai_agent_info, created_at, completion_reason,
\* has every field of the answer at the top level with its value, and has
\* no value that is a map.
C18_AnswerFlattened ==
    (md # <<>> /\ md.pc = "flattened") =>
       /\ DOMAIN md.m \cap keys_to_remove = {}
       /\ \A f \in DOMAIN md.answer :
            f \in DOMAIN md.m /\ md.m[f] = md.answer[f]
       /\ \A k \in DOMAIN md.m : md.m[k].t # "dict"

(***************************************************************************)
(* Liveness of the background jobs                                         *)
(***************************************************************************)
\* C19: under fair scheduling of the workers, with the manager running and
\* every job callable terminating, every enqueued job eventually has a
\* terminal status, also when the callables of earlier jobs raised.
C19_EveryJobFinishes ==
    \A j \in 1..MaxQueued :
        (j \in DOMAIN jobs) ~>
            (j \in DOMAIN jobs /\ jobs[j].status \in Terminal)

\* one worker has run three jobs, the other none: the callables of the
\* first two raised, and the third job has run to completion
C19_Witness ==
    /\ worker["JobWorker-0"] = IdleThread
    /\ DOMAIN jobs = 1..3
    /\ jobs[1].status = "failed" /\ jobs[2].status = "failed"
    /\ jobs[3].status = "completed"

C21_HalfOpenAdmission ==
    [][cfg.circuit_breaker =>
        LET admittedBefore == IF cb.state = OPEN THEN 0
                              ELSE cb.half_open_calls
            arrives(c) == /\ call[c].pc = "attempt"
                          /\ call'[c] # call[c]
                          /\ AfterRecoveryCheck(cb, now).state = HALF_OPEN
        IN  /\ \A c \in Callers : arrives(c) =>
                 IF admittedBefore < cfg.half_open_max_calls
                 THEN /\ call'[c].pc = "calling"
                      /\ cb'.state = HALF_OPEN
                      /\ cb'.half_open_calls = admittedBefore + 1
                      /\ cb'.rejected_calls = cb.rejected_calls
                 ELSE /\ call'[c].pc = "idle"
                      /\ call'[c].outcome = "CircuitBreakerError"
                      /\ call'[c].invocations = call[c].invocations
                      /\ cb'.rejected_calls = cb.rejected_calls + 1
                      /\ cb'.half_open_calls = admittedBefore
            /\ (cb.state = HALF_OPEN /\ cb'.state = HALF_OPEN
                  /\ ~\E c \in Callers : arrives(c))
                 => cb'.half_open_calls = cb.half_open_calls
            /\ cb'.state = HALF_OPEN
                 => cb'.half_open_calls <= cfg.half_open_max_calls]_vars

\* every probe of the half-open episode is in use by a call that is inside
\* the wrapped function, and another call has been rejected
C21_Witness ==
    /\ cfg.circuit_breaker
    /\ cb.state = HALF_OPEN
    /\ cb.half_open_calls = cfg.half_open_max_calls
    /\ \E c, d \in Callers :
         /\ call[c].pc = "calling"
         /\ call[d].pc = "idle" /\ call[d].outcome = "CircuitBreakerError"
         /\ call[d].invocations = 0
         /\ cb.rejected_calls = 1
         /\ cb.failed_calls = cfg.failure_threshold

(***************************************************************************)
(* Claiming of jobs by the workers                                         *)
(***************************************************************************)
\* C22: each job is claimed by exactly one worker and its callable is
\* invoked at most once: a worker starts executing a job only by flipping
\* it from pending to running, the job was never claimed before (its
\* started_at, written by the claim alone and never reset, is still None)
\* and no other worker executes it; a job becomes running only by such a
\* claim.
C22_ClaimedOnce ==
    [][/\ \A w \in Workers :
            (worker[w].pc # "exec" /\ worker'[w].pc = "exec") =>
               LET j == worker'[w].job IN
               /\ j \in DOMAIN jobs
               /\ jobs[j].status = "pending"
               /\ jobs[j].started_at = NoTime
               /\ jobs'[j].status = "running"
               /\ jobs'[j].started_at # NoTime
               /\ \A v \in Workers \ {w} :
                     ~Executing(v, j)
                     /\ ~(worker'[v].pc = "exec" /\ worker'[v].job = j)
       /\ \A j \in DOMAIN jobs \cap DOMAIN jobs' :
            /\ jobs[j].started_at # NoTime
                 => jobs'[j].started_at = jobs[j].started_at
            /\ (jobs[j].status # "running" /\ jobs'[j].status = "running")
                 => \E w \in Workers :
                      /\ worker[w].pc # "exec"
                      /\ worker'[w].pc = "exec" /\ worker'[w].job = j]_vars

\* two workers scanned the table for the one pending job: one of them
\* executes it, the other is still scanning
C22_Witness ==
    \E w, v \in Workers :
        /\ w # v
        /\ DOMAIN jobs = {1}
        /\ jobs[1].status = "running"
        /\ Executing(w, 1)
        /\ worker[v].pc = "scan" /\ worker[v].job = 0

(***************************************************************************)
(* The completion timestamp                                                *)
(***************************************************************************)
\* C23: for every job, in every state, completed_at is set if and only if
\* the status is terminal; it is written at the transition into the
\* terminal status, with the time of that transition, and neither
\* completed_at nor the terminal status changes afterwards.
C23_CompletedAtIffTerminal ==
    [][/\ \A j \in DOMAIN jobs' :
            (jobs'[j].completed_at # NoTime) <=> (jobs'[j].status \in Terminal)
       /\ \A j \in DOMAIN jobs \cap DOMAIN jobs' :
            /\ (jobs[j].status \notin Terminal /\ jobs'[j].status \in Terminal)
                 => jobs[j].completed_at = NoTime /\ jobs'[j].completed_at = now
            /\ jobs[j].status \in Terminal
                 => /\ jobs'[j].status = jobs[j].status
                    /\ jobs'[j].completed_at = jobs[j].completed_at]_vars

\* a job completed at an earlier time, and a later cancel_job of it was
\* refused: status and completed_at are as they were
C23_Witness ==
    \E j \in DOMAIN jobs :
        /\ jobs[j].status = "completed"
        /\ jobs[j].completed_at # NoTime
        /\ now > jobs[j].completed_at
        /\ lastCall.op = "cancel_job" /\ lastCall.job = j /\ ~lastCall.ret

(***************************************************************************)
(* The reaper                                                              *)
(***************************************************************************)
\* C24: a job leaves the job table only when it is in a terminal status
\* and its completion timestamp is older than job_ttl, so pending and
\* running jobs are never removed; a job enters the table only by enqueue,
\* under a new id, so a worker that finishes a job removed in the meantime
\* does not put it back.
C24_ReaperRemovesOldTerminal ==
    [][/\ \A j \in DOMAIN jobs \ DOMAIN jobs' :
            /\ jobs[j].status \in Terminal
            /\ jobs[j].completed_at # NoTime
            /\ now - jobs[j].completed_at > JobTtl
       /\ \A j \in DOMAIN jobs' \ DOMAIN jobs :
            j = nextId + 1 /\ lastCall'.op = "enqueue"
       /\ \A w \in Workers :
            (Leaves(w) /\ worker[w].job \notin DOMAIN jobs)
               => jobs' = jobs]_vars

\* a worker is still executing a job that was cancelled and that the
\* reaper has removed from the table
C24_Witness ==
    \E w \in Workers :
        /\ worker[w].pc = "exec"
        /\ worker[w].job \notin DOMAIN jobs
        /\ worker[w].job <= nextId

(***************************************************************************)
(* The order of the chunks of a batch                                      *)
(***************************************************************************)
\* C25: in process_batch the chunks run strictly one after another: while
\* any item of a chunk is submitted or executing, every item of the
\* earlier chunks has finished and no item of a later chunk has been
\* submitted; and at no time do more than max_workers items execute the
\* work function.
C25_ChunksSequential ==
    /\ \A j \in DOMAIN fut :
         /\ j <= offset => fut[j] = "done"
         /\ j > offset + bat.batch_size => fut[j] = "none"
    /\ Cardinality({j \in DOMAIN fut : fut[j] = "running"})
         <= bat.max_workers

\* three items in chunks of two with one worker: item 1 executes, item 2
\* waits for the worker, and item 3, of the next chunk, is not submitted
C25_Witness ==
    /\ bat.n = 3 /\ bat.batch_size = 2 /\ bat.max_workers = 1
    /\ fut[1] = "running" /\ fut[2] = "queued" /\ fut[3] = "none"

(***************************************************************************)
(* The adaptive worker count                                               *)
(***************************************************************************)
\* C26: with min_workers <= max_workers, current_workers stays within
\* [min_workers, max_workers]; it changes only at every
\* adaptation_interval-th recorded batch, and there it becomes one less
\* (not below min_workers) when the mean success rate of the last at most
\* 10 recorded batches is below target_success_rate, and one more (not
\* above max_workers) otherwise.
C26_AdaptiveWorkers ==
    [][LET a == adaptive
           b == adaptive'
           h == b.performance_history
       IN  /\ a.min_workers <= b.current_workers
           /\ b.current_workers <= a.max_workers
           /\ Len(h) = Min(Len(a.performance_history) + 1, HistoryLimit)
           /\ \A i \in 1..(Len(h) - 1) :
                h[i] = a.performance_history[
                           Len(a.performance_history) - (Len(h) - 1) + i]
           /\ IF b.batches # 0
              THEN b.current_workers = a.current_workers
              ELSE IF SumSeq(h) < a.target_success_rate * Len(h)
              THEN b.current_workers = Max(a.min_workers, a.current_workers - 1)
              ELSE b.current_workers =
                      Min(a.max_workers, a.current_workers + 1)]_vars

\* the history is full, its mean equals the target, and the worker count
\* has gone down to min_workers and is on its way up again
C26_Witness ==
    /\ adaptive.min_workers < adaptive.max_workers
    /\ Len(adaptive.performance_history) = HistoryLimit
    /\ SumSeq(adaptive.performance_history)
         = adaptive.target_success_rate * HistoryLimit
    /\ adaptive.performance_history[1] = 90
    /\ adaptive.current_workers = adaptive.max_workers
    /\ adaptive.batches = 0

(***************************************************************************)
(* The memory tier's cap                                                   *)
(***************************************************************************)
\* the access time access_times records for key k
AccessTime(at, k) == (CHOOSE i \in 1..Len(at) : at[i].key = k)

\* C27: memory_cache and access_times always have the same key set; after
\* every set or promotion the memory tier holds at most max_memory_items
\* entries; and an unexpired entry leaves the memory tier in a set or
\* promotion only when the tier is then full and no entry that stays was
\* accessed earlier than it; the entry written, the newest, stays.
C27_MemoryCapLru ==
    [][/\ DOMAIN memory_cache' = AtKeys(access_times')
       /\ \A k \in LruKeys : Set(k, "str") => k \in DOMAIN memory_cache'
       /\ \A r \in Readers :
             Promote(r) => reader[r].key \in DOMAIN memory_cache'
       /\ \A i, j \in 1..Len(access_times') :
             access_times'[i].key = access_times'[j].key => i = j
       /\ (\/ \E k \in LruKeys : Set(k, "str")
           \/ \E r \in Readers : Promote(r))
          => /\ Cardinality(DOMAIN memory_cache') <= ccfg.max_memory_items
             /\ \A x \in DOMAIN memory_cache \ DOMAIN memory_cache' :
                  now <= memory_cache[x].expires_at
                  => /\ Cardinality(DOMAIN memory_cache')
                          = ccfg.max_memory_items
                     /\ \A y \in DOMAIN memory_cache' :
                          access_times'[AccessTime(access_times', y)].time
                            >= access_times[AccessTime(access_times, x)].time
      ]_vars

\* set("k3") has just evicted k2, the least recently used of three unexpired
\* entries: k1 was written no later than k2 and has been read since
C27_Witness ==
    /\ ccfg.max_memory_items = 2
    /\ DOMAIN memory_cache = {"k1", "k3"}
    /\ lastSet["k3"].at = now
    /\ lastSet["k1"].at >= 0
    /\ lastSet["k1"].at <= lastSet["k2"].at
    /\ lastSet["k2"].at + ccfg.memory_ttl >= now
    /\ lastSet["k2"].at < now
    /\ access_times[AccessTime(access_times, "k1")].time > lastSet["k1"].at
    /\ reader["r1"].pc = "idle" /\ reader["r1"].key = "k1"

(***************************************************************************)
(* Invalidation and expiry against reads in progress                       *)
(***************************************************************************)
\* C28: once invalidate(k) has returned and no set(k, ...) has followed, a
\* get(k) that begins afterwards returns None, also when another get(k) was
\* between its read of the file tier and its backfill of the memory tier
\* while invalidate ran.  (lastSet[k] is NoSet from invalidate(k) to the
\* next set(k, ...); a get that returns without having been overtaken
\* began after the last of them.)
C28_InvalidatedStaysAbsent ==
    [][\A r \in Readers :
         /\ reader[r].pc # "idle" /\ reader'[r].pc = "idle"
         /\ ~reader[r].overtaken
         /\ lastSet[reader[r].key] = NoSet
         => reader'[r].ret = None]_vars

\* C29: the value of set(k, v) at time t is not returned by a get(k) that
\* begins after t plus the larger of the TTLs of the tiers written, unless
\* set(k, ...) is called again; and no memory entry of k, promoted ones
\* included, expires later than that.
C29_LifetimeFixedBySet ==
    [][LET last(k) == lastSet'[k].at + Max(ccfg.memory_ttl, ccfg.file_ttl)
       IN  /\ \A k \in DOMAIN memory_cache' :
                lastSet'[k] # NoSet => memory_cache'[k].expires_at <= last(k)
           /\ \A r \in Readers :
                /\ reader[r].pc # "idle" /\ reader'[r].pc = "idle"
                /\ ~reader[r].overtaken
                /\ lastSet[reader[r].key] # NoSet
                /\ reader[r].began > last(reader[r].key)
                => reader'[r].ret = None]_vars

(***************************************************************************)
(* The breaker recovers                                                    *)
(***************************************************************************)
\* the breaker is open, recovery_timeout has elapsed since the last
\* failure, every invocation of the wrapped function from now on succeeds,
\* and enough calls will be submitted
OpenAndHealed ==
    /\ cb.state = OPEN
    /\ RecoveryElapsed(cb, now)
    /\ now >= HealTime
    /\ \A c \in Callers : call[c].failsLeft = 0
    /\ callsLeft >= cfg.half_open_max_calls

\* C30: an open breaker is not stuck: once recovery_timeout has elapsed
\* since the last failure, calls keep being submitted and every invocation
\* of the wrapped function succeeds, the breaker eventually is closed with
\* failure_count and success_count 0, under any interleaving of the
\* concurrent calls.
C30_OpenBreakerRecovers ==
    OpenAndHealed
    ~> (cb.state = CLOSED /\ cb.failure_count = 0 /\ cb.success_count = 0)

\* the breaker has been open, has rejected a call while it was half-open
\* with all its probes admitted, and is closed again
C30_Witness ==
    /\ cb.state = CLOSED /\ cb.failure_count = 0 /\ cb.success_count = 0
    /\ cb.failed_calls >= 1
    /\ cb.half_open_calls = cfg.half_open_max_calls
    /\ cb.successful_calls = cfg.half_open_max_calls
    /\ cb.rejected_calls >= 1
    /\ now >= HealTime
    /\ now - cb.last_failure_time > cfg.recovery_timeout
    /\ cb.total_calls
         = cb.failed_calls + cb.successful_calls + cb.rejected_calls

====
